---- MODULE Spec2Model ----
(***************************************************************************)
(* A model of raumata's link router (link_router.go): NewLinkRouter,      *)
(* SetExtents, the three passes of RouteLinks and the A* search of        *)
(* routeFinder (run, neighbours, weight, goalDistance, buildRoute), with   *)
(* the grid, the priority queue and Polyline.Fix it rests on.              *)
(*                                                                         *)
(* Representation.  A nil pointer or an empty slice is the empty sequence  *)
(* << >>: Node.Pos is << >> or <<x, y>>, Node.Extents is << >> or          *)
(* <<width, height>>.  A Go map is a TLA+ function whose DOMAIN is the set *)
(* of keys present; the order a Go `range` visits a map in is a choice     *)
(* among all orders.  A float32 weight is a record [hi, lo] that stands    *)
(* for hi + lo / 2^24, and every sum, product and quotient of weights is   *)
(* rounded as float32 rounds it.  A Vec2 of a route holds integral         *)
(* coordinates, so it is the record [X, Y] of integers.                    *)
(***************************************************************************)
EXTENDS Integers, Sequences, FiniteSets, TLC

\* ------------------------------------------------------------ constants

searchLimit == 8192
routeIterLimit == 32
linkPenaltyWeight == 10

\* ------------------------------------------------------------ bounds

\* node, via and label coordinates of the inputs lie in 0..GridMax
GridMax == 3
\* the number of RouteLinks calls on one router
MaxCalls == 2

\* the side of the extents of the input whose search gives up at searchLimit
CapSide == 32

\* ------------------------------------------------------------ helpers

Abs(n) == IF n < 0 THEN -n ELSE n

Last(s) == s[Len(s)]

\* all the orders a `range` over a map with key set S may visit it in
Orders(S) ==
  {s \in [1..Cardinality(S) -> S] : \A i, j \in 1..Cardinality(S) : s[i] = s[j] => i = j}

\* m[k] with Go's zero value for a missing key
Lookup(m, k, zero) == IF k \in DOMAIN m THEN m[k] ELSE zero

\* m[k] = v
Put(m, k, v) == IF k \in DOMAIN m THEN [m EXCEPT ![k] = v] ELSE m @@ (k :> v)

\* delete(m, k)
Delete(m, k) == [x \in DOMAIN m \ {k} |-> m[x]]

EmptyMap == [x \in {} |-> 0]

\* ------------------------------------------------------------ float32
\* A float32 that is 0 or at least 1/2 and a whole number of 2^-24 is the
\* record [hi, lo]: hi + lo / F32One with 0 <= lo < F32One.  The weights of
\* the router and the scores of PlaceLabels are such numbers.  Every
\* operation rounds as float32 does: to 24 significant bits, ties to even.

F32One == 16777216

\* the float32 numbers from which on one unit in the last place is 1 or more
F32Whole == 8388608

F32(hi, lo) == [hi |-> hi, lo |-> lo]

RECURSIVE Pow2(_)
Pow2(k) == IF k = 0 THEN 1 ELSE 2 * Pow2(k - 1)

\* the largest power of two that is at most n, n >= 1
RECURSIVE Pow2Floor(_)
Pow2Floor(n) == IF n < 2 THEN 1 ELSE 2 * Pow2Floor(n \div 2)

\* the k with Pow2Floor(n) = 2^k
RECURSIVE Log2(_)
Log2(n) == IF n < 2 THEN 0 ELSE 1 + Log2(n \div 2)

\* hi + lo / F32One rounded to the nearest float32 (24 bits, ties to even)
F32Round(hi, lo) ==
  IF hi < F32Whole
  THEN LET ulp == IF hi = 0 THEN 1 ELSE 2 * Pow2Floor(hi)
           quot == lo \div ulp
           rest == lo % ulp
           carry == IF 2 * rest > ulp \/ (2 * rest = ulp /\ quot % 2 = 1) THEN 1 ELSE 0
           lo2 == (quot + carry) * ulp
       IN IF lo2 = F32One THEN F32(hi + 1, 0) ELSE F32(hi, lo2)
  ELSE LET ulp == Pow2Floor(hi) \div F32Whole
           quot == hi \div ulp
           rest == hi % ulp
           up == IF ulp = 1
                 THEN 2 * lo > F32One \/ (2 * lo = F32One /\ quot % 2 = 1)
                 ELSE 2 * rest > ulp \/ (2 * rest = ulp /\ (lo > 0 \/ quot % 2 = 1))
       IN F32((quot + (IF up THEN 1 ELSE 0)) * ulp, 0)

\* a + b in float32
F32Add(a, b) ==
  LET lo == a.lo + b.lo
  IN IF lo >= F32One THEN F32Round(a.hi + b.hi + 1, lo - F32One)
     ELSE F32Round(a.hi + b.hi, lo)

\* a * k in float32, k a whole number from 1 to 127
F32Times(a, k) ==
  F32Round(a.hi * k + (a.lo * k) \div F32One, (a.lo * k) % F32One)

\* a < b
F32Less(a, b) == a.hi < b.hi \/ (a.hi = b.hi /\ a.lo < b.lo)

\* a float32 above 0 as m * 2^(e - 23) with F32Whole <= m < 2 * F32Whole
Mantissa(a) ==
  IF a.hi >= 2 * F32Whole
  THEN LET k == Log2(a.hi) IN [m |-> a.hi \div Pow2(k - 23), e |-> k]
  ELSE IF a.hi > 0
  THEN LET k == Log2(a.hi)
       IN [m |-> a.hi * Pow2(23 - k) + a.lo \div Pow2(k + 1), e |-> k]
  ELSE LET k == Log2(a.lo) IN [m |-> a.lo * Pow2(23 - k), e |-> k - 24]

\* long division: the next `bits` binary digits of rem / d after those of acc
RECURSIVE DivBits(_, _, _, _)
DivBits(rem, d, bits, acc) ==
  IF bits = 0 THEN [q |-> acc, rem |-> rem]
  ELSE IF 2 * rem >= d THEN DivBits(2 * rem - d, d, bits - 1, 2 * acc + 1)
  ELSE DivBits(2 * rem, d, bits - 1, 2 * acc)

\* a / b in float32, as [kind, m, e]: "nan" for 0 / 0, "inf" for a / 0,
\* "zero" for 0 / b, and else the "num" m * 2^(e - 23)
F32Quotient(a, b) ==
  LET zeroA == a.hi = 0 /\ a.lo = 0
      zeroB == b.hi = 0 /\ b.lo = 0
  IN IF zeroA /\ zeroB THEN [kind |-> "nan", m |-> 0, e |-> 0]
     ELSE IF zeroB THEN [kind |-> "inf", m |-> 0, e |-> 0]
     ELSE IF zeroA THEN [kind |-> "zero", m |-> 0, e |-> 0]
     ELSE LET x == Mantissa(a)
              y == Mantissa(b)
              d == IF x.m >= y.m THEN DivBits(x.m - y.m, y.m, 23, 1)
                   ELSE DivBits(x.m, y.m, 24, 0)
              e == IF x.m >= y.m THEN x.e - y.e ELSE x.e - y.e - 1
              up == 2 * d.rem > y.m \/ (2 * d.rem = y.m /\ d.q % 2 = 1)
              m == IF up THEN d.q + 1 ELSE d.q
          IN IF m = 2 * F32Whole THEN [kind |-> "num", m |-> F32Whole, e |-> e + 1]
             ELSE [kind |-> "num", m |-> m, e |-> e]

\* p - q < 0 for two quotients
QuotientLess(p, q) ==
  CASE p.kind = "nan" \/ q.kind = "nan" -> FALSE
    [] p.kind = "inf" -> FALSE
    [] q.kind = "inf" -> TRUE
    [] q.kind = "zero" -> FALSE
    [] p.kind = "zero" -> TRUE
    [] OTHER -> p.e < q.e \/ (p.e = q.e /\ p.m < q.m)

\* ------------------------------------------------------------ internal.GridPos

GridPos(x, y) == [X |-> x, Y |-> y]

PosOf(a) == GridPos(a[1], a[2])

ToVec(g) == [X |-> g.X, Y |-> g.Y]

\* int16(point.X), int16(point.Y) of a route point
ToGridPos(v) == [X |-> v.X, Y |-> v.Y]

GridMin(g, p) ==
  GridPos(IF g.X < p.X THEN g.X ELSE p.X, IF g.Y < p.Y THEN g.Y ELSE p.Y)

GridMaxPos(g, p) ==
  GridPos(IF g.X > p.X THEN g.X ELSE p.X, IF g.Y > p.Y THEN g.Y ELSE p.Y)

ChebyshevDistance(a, b) ==
  LET dx == Abs(a.X - b.X)
      dy == Abs(a.Y - b.Y)
  IN IF dx > dy THEN dx ELSE dy

\* ------------------------------------------------------------ internal.PriorityQueue
\* The heap is container/heap's binary heap on a slice; index i of the
\* slice is element i + 1 of the sequence.

Less(h, i, j) == h[i + 1].priority < h[j + 1].priority

Swap(h, i, j) == [h EXCEPT ![i + 1] = h[j + 1], ![j + 1] = h[i + 1]]

RECURSIVE up(_, _)
up(h, j) ==
  LET i == (j - 1) \div 2
  IN IF j = 0 \/ i = j \/ ~Less(h, j, i) THEN h ELSE up(Swap(h, i, j), i)

RECURSIVE down(_, _, _)
down(h, i, n) ==
  LET j1 == 2 * i + 1
      j2 == j1 + 1
      j == IF j2 < n /\ Less(h, j2, j1) THEN j2 ELSE j1
  IN IF j1 >= n THEN h
     ELSE IF ~Less(h, j, i) THEN h
     ELSE down(Swap(h, i, j), j, n)

Push(h, data, priority) ==
  up(Append(h, [value |-> data, priority |-> priority]), Len(h))

\* the queue after Pop; the popped value is PopValue(h)
Pop(h) ==
  LET n == Len(h) - 1
  IN SubSeq(down(Swap(h, 0, n), 0, n), 1, n)

PopValue(h) == h[1].value

\* ------------------------------------------------------------ vec.Polyline

\* a Fix that keeps every point
Fix_Nothing(pl) == pl

RECURSIVE FixFrom(_, _, _)
FixFrom(pl, i, newLine) ==
  IF i > Len(pl) THEN newLine
  ELSE IF i = 1 \/ pl[i] # Last(newLine)
       THEN FixFrom(pl, i + 1, Append(newLine, pl[i]))
       ELSE FixFrom(pl, i + 1, newLine)

\* Polyline.Fix: drops each point equal to the point kept before it
\* (no coordinate of the model is NaN)
Fix(pl) == IF Len(pl) = 0 THEN pl ELSE FixFrom(pl, 1, << >>)

\* ------------------------------------------------------------ Node
\* A node is [Id, Pos, LabelAt, Extents], a link [From, To, Via, Route];
\* a topology is [Nodes, Links], two maps keyed by id.

\* Topology.GetNode: the node, or << >> for nil
GetNode(t, id) == IF id \in DOMAIN t.Nodes THEN <<t.Nodes[id]>> ELSE << >>

\* Node.IsMultiCell
IsMultiCell(node) == node.Extents # << >>

\* Node.GetExtents, in half cells: the rectangle of the given width and
\* height centred at Pos
GetExtents(node) ==
  [minX |-> 2 * node.Pos[1] - node.Extents[1],
   minY |-> 2 * node.Pos[2] - node.Extents[2],
   maxX |-> 2 * node.Pos[1] + node.Extents[1],
   maxY |-> 2 * node.Pos[2] + node.Extents[2]]

\* int16(f32.Ceil(v)) of a coordinate given in half cells
CeilHalf(h) == (h + 1) \div 2

\* the bounds minX, minY, maxX, maxY the router derives from GetExtents;
\* the node's cells are minX..maxX-1 by minY..maxY-1
CellBounds(node) ==
  LET e == GetExtents(node)
  IN [minX |-> CeilHalf(e.minX), minY |-> CeilHalf(e.minY),
      maxX |-> CeilHalf(e.maxX), maxY |-> CeilHalf(e.maxY)]

\* ------------------------------------------------------------ LinkRouter
\* The router is the record of LinkRouter's fields (topo is the variable).

\* router.linkMap holds, for each cell, the set of the ids in the cell's
\* slice: addLink never appends an id the slice holds already, removeLink
\* drops the id, and nothing the router computes depends on the order of
\* the ids in a slice.

\* LinkRouter.addLink
addLink(r, pos, id) ==
  LET curLinks == Lookup(r.linkMap, pos, {})
  IN IF id \in curLinks THEN r
     ELSE [r EXCEPT !.linkMap = Put(r.linkMap, pos, curLinks \cup {id}),
                    !.extentMin = GridMin(r.extentMin, pos),
                    !.extentMax = GridMaxPos(r.extentMax, pos)]

\* LinkRouter.removeLink
removeLink(r, pos, id) ==
  IF pos \notin DOMAIN r.linkMap THEN r
  ELSE LET newList == r.linkMap[pos] \ {id}
       IN IF newList # {}
          THEN [r EXCEPT !.linkMap = Put(r.linkMap, pos, newList)]
          ELSE [r EXCEPT !.linkMap = Delete(r.linkMap, pos)]

RECURSIVE addRouteFrom(_, _, _, _)
addRouteFrom(r, id, path, i) ==
  IF i > Len(path) THEN r
  ELSE addRouteFrom(addLink(r, ToGridPos(path[i]), id), id, path, i + 1)

\* LinkRouter.addRoute
addRoute(r, id, path) == addRouteFrom(r, id, path, 1)

RECURSIVE removeRouteFrom(_, _, _, _)
removeRouteFrom(r, id, path, i) ==
  IF i > Len(path) THEN r
  ELSE removeRouteFrom(removeLink(r, ToGridPos(path[i]), id), id, path, i + 1)

\* LinkRouter.removeRoute
removeRoute(r, id, path) == removeRouteFrom(r, id, path, 1)

\* LinkRouter.moveRoute
moveRoute(r, id, oldPath, newPath) == addRoute(removeRoute(r, id, oldPath), id, newPath)

\* the cell a fixed label occupies (NewLinkRouter's switch on LabelAt)
LabelCell(pos, labelAt) ==
  CASE labelAt = "n"  -> GridPos(pos.X, pos.Y - 1)
    [] labelAt = "ne" -> GridPos(pos.X + 1, pos.Y - 1)
    [] labelAt = "e"  -> GridPos(pos.X + 1, pos.Y)
    [] labelAt = "se" -> GridPos(pos.X + 1, pos.Y + 1)
    [] labelAt = "s"  -> GridPos(pos.X, pos.Y + 1)
    [] labelAt = "sw" -> GridPos(pos.X - 1, pos.Y + 1)
    [] labelAt = "w"  -> GridPos(pos.X - 1, pos.Y)
    [] labelAt = "nw" -> GridPos(pos.X - 1, pos.Y - 1)
    [] OTHER -> pos

\* the cells of a multi-cell node, written into router.nodes
FootprintCells(node) ==
  LET b == CellBounds(node)
  IN {GridPos(x, y) : x \in b.minX..(b.maxX - 1), y \in b.minY..(b.maxY - 1)}
\* AddNode with the rectangle's upper bounds included (x <= maxX, y <= maxY)
AddNode_Inclusive(c, node) ==
  IF node.Pos = << >> THEN c
  ELSE
    LET pos == PosOf(node.Pos)
        r0 == c.r
        r1 == IF ~c.setExtents
              THEN [r0 EXCEPT !.extentMin = pos, !.extentMax = pos]
              ELSE [r0 EXCEPT !.extentMin = GridMin(r0.extentMin, pos),
                              !.extentMax = GridMaxPos(r0.extentMax, pos)]
        r2 == [r1 EXCEPT !.nodes = Put(r1.nodes, pos, node.Id)]
        b == CellBounds(node)
        cells == {GridPos(x, y) : x \in b.minX..b.maxX, y \in b.minY..b.maxY}
        r3 == IF IsMultiCell(node) /\ node.Extents[1] > 0 /\ node.Extents[2] > 0
              THEN [r2 EXCEPT
                      !.nodes = [p \in DOMAIN r2.nodes \cup cells |->
                                   IF p \in cells THEN node.Id ELSE r2.nodes[p]],
                      !.extentMin = GridMin(r2.extentMin, GridPos(b.minX, b.minY)),
                      !.extentMax = GridMaxPos(r2.extentMax, GridPos(b.maxX, b.maxY))]
              ELSE r2
        labelAt == LabelCell(pos, node.LabelAt)
        r4 == IF labelAt # pos
              THEN [r3 EXCEPT !.nodeLabels = r3.nodeLabels \cup {labelAt},
                              !.extentMin = GridMin(r3.extentMin, labelAt),
                              !.extentMax = GridMaxPos(r3.extentMax, labelAt)]
              ELSE r3
    IN [r |-> r4, setExtents |-> TRUE]

\* NewLinkRouter, the body of the loop over topo.Nodes; c is [r, setExtents]
AddNode(c, node) ==
  IF node.Pos = << >> THEN c
  ELSE
    LET pos == PosOf(node.Pos)
        r0 == c.r
        r1 == IF ~c.setExtents
              THEN [r0 EXCEPT !.extentMin = pos, !.extentMax = pos]
              ELSE [r0 EXCEPT !.extentMin = GridMin(r0.extentMin, pos),
                              !.extentMax = GridMaxPos(r0.extentMax, pos)]
        r2 == [r1 EXCEPT !.nodes = Put(r1.nodes, pos, node.Id)]
        b == CellBounds(node)
        cells == FootprintCells(node)
        r3 == IF IsMultiCell(node) /\ node.Extents[1] > 0 /\ node.Extents[2] > 0
              THEN [r2 EXCEPT
                      !.nodes = [p \in DOMAIN r2.nodes \cup cells |->
                                   IF p \in cells THEN node.Id ELSE r2.nodes[p]],
                      !.extentMin = GridMin(r2.extentMin, GridPos(b.minX, b.minY)),
                      !.extentMax = GridMaxPos(r2.extentMax, GridPos(b.maxX, b.maxY))]
              ELSE r2
        labelAt == LabelCell(pos, node.LabelAt)
        r4 == IF labelAt # pos
              THEN [r3 EXCEPT !.nodeLabels = r3.nodeLabels \cup {labelAt},
                              !.extentMin = GridMin(r3.extentMin, labelAt),
                              !.extentMax = GridMaxPos(r3.extentMax, labelAt)]
              ELSE r3
    IN [r |-> r4, setExtents |-> TRUE]

RECURSIVE AddNodes(_, _, _, _)
AddNodes(c, t, order, i) ==
  IF i > Len(order) THEN c
  ELSE AddNodes(AddNode(c, t.Nodes[order[i]]), t, order, i + 1)

RECURSIVE AddVias(_, _, _, _)
AddVias(r, id, via, i) ==
  IF i > Len(via) THEN r
  ELSE AddVias(addLink(r, PosOf(via[i]), id), id, via, i + 1)

\* NewLinkRouter, the body of the loop over topo.Links
AddLinkEnds(r, t, id) ==
  LET link == t.Links[id]
      from == GetNode(t, link.From)
      to == GetNode(t, link.To)
      r1 == AddVias(r, id, link.Via, 1)
      r2 == IF from # << >> /\ from[1].Pos # << >>
            THEN addLink(r1, PosOf(from[1].Pos), id) ELSE r1
      r3 == IF to # << >> /\ to[1].Pos # << >>
            THEN addLink(r2, PosOf(to[1].Pos), id) ELSE r2
  IN IF Len(link.Route) > 0 THEN addRoute(r, id, link.Route) ELSE r3

RECURSIVE AddLinks(_, _, _, _)
AddLinks(r, t, order, i) ==
  IF i > Len(order) THEN r
  ELSE AddLinks(AddLinkEnds(r, t, order[i]), t, order, i + 1)

\* NewLinkRouter; the two orders are the orders the maps are ranged in
NewLinkRouter(t, nodeOrder, linkOrder) ==
  LET r0 == [AvoidNodes |-> TRUE,
             AttachMultiCellsCardinal |-> TRUE,
             SpreadLinks |-> TRUE,
             Orthogonal |-> FALSE,
             nodes |-> EmptyMap,
             nodeLabels |-> {},
             linkMap |-> EmptyMap,
             extentMin |-> GridPos(0, 0),
             extentMax |-> GridPos(0, 0)]
      c == AddNodes([r |-> r0, setExtents |-> FALSE], t, nodeOrder, 1)
  IN AddLinks(c.r, t, linkOrder, 1)

\* a SetExtents that takes the two corners as they are given
SetExtents_AsGiven(r, minX, minY, maxX, maxY) ==
  [r EXCEPT !.extentMin = GridPos(minX, minY), !.extentMax = GridPos(maxX, maxY)]

\* LinkRouter.SetExtents
SetExtents(r, minX, minY, maxX, maxY) ==
  LET min == GridPos(minX, minY)
      max == GridPos(maxX, maxY)
  IN [r EXCEPT !.extentMin = GridMin(min, max), !.extentMax = GridMaxPos(min, max)]


\* ------------------------------------------------------------ routeFinder
\* A finder is the record of routeFinder's fields and of the locals of run:
\* openSet, weights, iterNum; status is "running" inside run's loop and
\* "done" once run has returned: result is << >> (nil) or <<route>>, a route
\* being [id, path, weight].  chain (the states buildRoute walked, from the
\* start to the goal) and panicked record what buildRoute did; replaced
\* records the states whose entry of cameFrom the loop has overwritten.

gridNode(gridPos, dirX, dirY, via) ==
  [gridPos |-> gridPos, dirX |-> dirX, dirY |-> dirY, via |-> via]

\* a getVia that counts the vias from the front of the list
getVia_FromFront(f, n) ==
  IF n = 0 \/ n > Len(f.vias) THEN << >> ELSE <<f.vias[n]>>

\* routeFinder.getVia: << >> when there is none
getVia(f, n) ==
  IF n = 0 \/ n > Len(f.vias) THEN << >> ELSE <<f.vias[Len(f.vias) - n + 1]>>

\* the check of produce without the test of the node labels
CellFree_NoLabel(r, gridPos) ==
  LET inBounds == /\ gridPos.X >= r.extentMin.X /\ gridPos.X <= r.extentMax.X
                  /\ gridPos.Y >= r.extentMin.Y /\ gridPos.Y <= r.extentMax.Y
      isNode == r.AvoidNodes /\ gridPos \in DOMAIN r.nodes
  IN inBounds /\ ~isNode

\* the check `inBounds && !isNode && !isLabel` of produce
CellFree(r, gridPos) ==
  LET inBounds == /\ gridPos.X >= r.extentMin.X /\ gridPos.X <= r.extentMax.X
                  /\ gridPos.Y >= r.extentMin.Y /\ gridPos.Y <= r.extentMax.Y
      isNode == r.AvoidNodes /\ gridPos \in DOMAIN r.nodes
      isLabel == gridPos \in r.nodeLabels
  IN inBounds /\ ~isNode /\ ~isLabel

\* an acceptance that holds the goal cell to the check of the other cells
AcceptAtGoal_IfFree(f, r, g) ==
  /\ CellFree(r, g.gridPos)
  /\ (f.goalIsMulti /\ r.AttachMultiCellsCardinal) => (g.dirX = 0 \/ g.dirY = 0)

\* an acceptance at the goal from every direction
AcceptAtGoal_Always(f, r, g) == TRUE

\* the acceptance of a neighbour on the goal position or on a goal-node cell
AcceptAtGoal(f, r, g) ==
  IF f.goalIsMulti /\ r.AttachMultiCellsCardinal
  THEN g.dirX = 0 \/ g.dirY = 0
  ELSE TRUE

\* the via index of neighbour g of pos: one less when g enters the pending via
EnterVia(f, pos, g) ==
  LET via == getVia(f, pos.via)
  IN IF via # << >> /\ g.gridPos = via[1] THEN [g EXCEPT !.via = g.via - 1] ELSE g

\* the closure produce of neighbours: << >> when g is pruned, else <<g>>
produce(f, r, pos, g) ==
  IF g = pos THEN << >>
  ELSE IF pos \in DOMAIN f.cameFrom /\ f.cameFrom[pos] = g THEN << >>
  ELSE
    LET g1 == EnterVia(f, pos, g)
        nodeId == Lookup(r.nodes, g1.gridPos, "")
    IN IF g1.gridPos = f.goal.gridPos \/ nodeId = f.goalNode
       THEN IF AcceptAtGoal(f, r, g1) THEN <<g1>> ELSE << >>
       ELSE IF CellFree(r, g1.gridPos) THEN <<g1>> ELSE << >>

\* a step that jumps two cells in direction (dx, dy)
StepTo_Jump(pos, dx, dy) ==
  [pos EXCEPT !.dirX = dx, !.dirY = dy,
              !.gridPos = GridPos(pos.gridPos.X + 2 * dx, pos.gridPos.Y + 2 * dy)]

\* one cell further in direction (dx, dy), heading that way
StepTo(pos, dx, dy) ==
  [pos EXCEPT !.dirX = dx, !.dirY = dy,
              !.gridPos = GridPos(pos.gridPos.X + dx, pos.gridPos.Y + dy)]

Turn(pos, dx, dy) == [pos EXCEPT !.dirX = dx, !.dirY = dy]

\* the neighbours of a start state, the diagonals produced under every setting
StartCandidates_Diagonals(r, pos) ==
  <<StepTo(pos, -1, 0), StepTo(pos, 0, -1), StepTo(pos, 0, 1), StepTo(pos, 1, 0)>>
  \o <<StepTo(pos, -1, -1), StepTo(pos, -1, 1), StepTo(pos, 1, -1), StepTo(pos, 1, 1)>>

\* the neighbours of a start state, in the order they are produced
StartCandidates(r, pos) ==
  <<StepTo(pos, -1, 0), StepTo(pos, 0, -1), StepTo(pos, 0, 1), StepTo(pos, 1, 0)>>
  \o (IF ~r.Orthogonal
      THEN <<StepTo(pos, -1, -1), StepTo(pos, -1, 1), StepTo(pos, 1, -1), StepTo(pos, 1, 1)>>
      ELSE << >>)

\* the turns of a moving state, in the order they are produced
TurnCandidates(r, pos) ==
  IF r.Orthogonal
  THEN IF pos.dirX = 0
       THEN <<Turn(pos, pos.dirY, 0), Turn(pos, -pos.dirY, 0)>>
       ELSE <<Turn(pos, 0, pos.dirX), Turn(pos, 0, -pos.dirX)>>
  ELSE (IF pos.dirX = 0
        THEN <<Turn(pos, 1, pos.dirY), Turn(pos, -1, pos.dirY)>>
        ELSE IF pos.dirY # 0 THEN <<Turn(pos, 0, pos.dirY)>> ELSE << >>)
       \o
       (IF pos.dirY = 0
        THEN <<Turn(pos, pos.dirX, 1), Turn(pos, pos.dirX, -1)>>
        ELSE IF pos.dirX # 0 THEN <<Turn(pos, pos.dirX, 0)>> ELSE << >>)

Candidates(r, pos) ==
  IF pos.dirX # 0 \/ pos.dirY # 0
  THEN <<StepTo(pos, pos.dirX, pos.dirY)>> \o TurnCandidates(r, pos)
  ELSE StartCandidates(r, pos)

RECURSIVE ProduceAll(_, _, _, _, _)
ProduceAll(f, r, pos, cands, i) ==
  IF i > Len(cands) THEN << >>
  ELSE produce(f, r, pos, cands[i]) \o ProduceAll(f, r, pos, cands, i + 1)

\* routeFinder.neighbours: the nodes fn is called with, in order
neighbours(f, r, pos) == ProduceAll(f, r, pos, Candidates(r, pos), 1)

\* linkPenalty, a float32 below 4, is counted in units of 1 / PenaltyOne.  It
\* is 0 or at least 1/16, so that one unit in its last place is 2 / PenaltyOne
\* or more and a term 1 / n below 1 / PenaltyOne leaves it as it is.
PenaltyOne == 536870912

\* a whole number of 1 / PenaltyOne rounded to the nearest float32
PenaltyRound(a) ==
  IF a < F32One THEN a
  ELSE LET ulp == Pow2Floor(a) \div F32Whole
           quot == a \div ulp
           rest == a % ulp
           carry == IF 2 * rest > ulp \/ (2 * rest = ulp /\ quot % 2 = 1) THEN 1 ELSE 0
       IN (quot + carry) * ulp

\* n *= 2; from PenaltyOne on, every n gives a term that changes nothing
Doubled(n) == IF n > PenaltyOne THEN n ELSE 2 * n

\* n after `count` links have been counted
RECURSIVE NAfter(_, _)
NAfter(n, count) == IF count = 0 THEN n ELSE NAfter(Doubled(n), count - 1)

\* linkPenalty after `count` times linkPenalty += 1 / n; n *= 2.  A term that
\* leaves linkPenalty as it is is followed by smaller ones, which do the same.
RECURSIVE Penalty(_, _, _)
Penalty(linkPenalty, n, count) ==
  LET next == PenaltyRound(linkPenalty + PenaltyOne \div n)
  IN IF count = 0 \/ next = linkPenalty THEN linkPenalty
     ELSE Penalty(next, Doubled(n), count - 1)

\* linkPenalty * f.router.linkPenaltyWeight as a float32 [hi, lo]
Weighted(linkPenalty) ==
  LET fine == PenaltyOne \div F32One
      units == (linkPenalty \div fine) * linkPenaltyWeight
                 + ((linkPenalty % fine) * linkPenaltyWeight) \div fine
      below == ((linkPenalty % fine) * linkPenaltyWeight) % fine
      hi == units \div F32One
      ulp == IF hi = 0 THEN 1 ELSE 2 * Pow2Floor(hi)
      quot == units \div ulp
      rest == (units % ulp) * fine + below
      carry == IF 2 * rest > ulp * fine \/ (2 * rest = ulp * fine /\ quot % 2 = 1)
               THEN 1 ELSE 0
      rounded == (quot + carry) * ulp
  IN F32(rounded \div F32One, rounded % F32One)

\* the links of a cell, the one being routed among them
OtherLinks_All(f, r, at) == Lookup(r.linkMap, at, {})

\* the links of a cell other than the one being routed
OtherLinks(f, r, at) == Lookup(r.linkMap, at, {}) \ {f.linkId}

\* the closure addPenalty of weight
SpreadPenalty(f, r, at, linkPenalty) ==
  IF ~r.SpreadLinks THEN linkPenalty
  ELSE Penalty(linkPenalty, 16, Cardinality(OtherLinks(f, r, at)))

\* the cells to the left and right of toNode that weight looks at
SpreadCells(toNode) ==
  LET to == toNode.gridPos
  IN (IF toNode.dirX = 0
      THEN <<GridPos(to.X + 1, to.Y + toNode.dirY), GridPos(to.X - 1, to.Y + toNode.dirY)>>
      ELSE IF toNode.dirY # 0 THEN <<GridPos(to.X, to.Y + toNode.dirY)>> ELSE << >>)
     \o
     (IF toNode.dirY = 0
      THEN <<GridPos(to.X + toNode.dirX, to.Y + 1), GridPos(to.X + toNode.dirX, to.Y - 1)>>
      ELSE IF toNode.dirX # 0 THEN <<GridPos(to.X + toNode.dirX, to.Y)>> ELSE << >>)

RECURSIVE SumSpread(_, _, _, _, _)
SumSpread(f, r, cells, i, linkPenalty) ==
  IF i > Len(cells) THEN linkPenalty
  ELSE SumSpread(f, r, cells, i + 1, SpreadPenalty(f, r, cells[i], linkPenalty))

\* the links weight finds in both cells beside a diagonal step
CrossingLinks(f, r, fromNode) ==
  IF fromNode.dirX # 0 /\ fromNode.dirY # 0
  THEN OtherLinks(f, r, GridPos(fromNode.gridPos.X + fromNode.dirX, fromNode.gridPos.Y))
       \cap OtherLinks(f, r, GridPos(fromNode.gridPos.X, fromNode.gridPos.Y + fromNode.dirY))
  ELSE {}

\* a base cost that charges 2 for every turn
BaseCost_FlatTurn(f, fromNode, toNode) ==
  IF fromNode.gridPos = toNode.gridPos
  THEN 2
  ELSE ChebyshevDistance(fromNode.gridPos, toNode.gridPos)

\* the base cost of an edge: its length, or 2 or 4 for a turn
BaseCost(f, fromNode, toNode) ==
  IF fromNode.gridPos = toNode.gridPos
  THEN IF fromNode \in DOMAIN f.cameFrom
          /\ f.cameFrom[fromNode].gridPos = fromNode.gridPos
       THEN 4 ELSE 2
  ELSE ChebyshevDistance(fromNode.gridPos, toNode.gridPos)

\* linkPenalty * f.router.linkPenaltyWeight of an edge
LinkPenalty(f, r, fromNode, toNode) ==
  LET to == toNode.gridPos
      toNodeId == Lookup(r.nodes, to, "")
      k == Cardinality(OtherLinks(f, r, to))
      c == Cardinality(CrossingLinks(f, r, fromNode))
      inCell == Penalty(0, 1, k)
      crossing == Penalty(inCell, NAfter(1, k), c)
  IN IF fromNode.gridPos = to THEN F32(0, 0)
     ELSE IF to # f.goal.gridPos /\ toNodeId # f.goalNode
     THEN Weighted(SumSpread(f, r, SpreadCells(toNode), 1, crossing))
     ELSE F32(0, 0)

\* routeFinder.weight
weight(f, r, fromNode, toNode) ==
  F32Add(F32(BaseCost(f, fromNode, toNode), 0), LinkPenalty(f, r, fromNode, toNode))

Min(S) == CHOOSE m \in S : \A x \in S : m <= x

\* routeFinder.goalDistance
goalDistance(f, t, fromNode) ==
  IF f.goalIsMulti
  THEN LET cells == FootprintCells(t.Nodes[f.goalNode])
       IN IF cells = {} THEN -1
          ELSE Min({ChebyshevDistance(fromNode.gridPos, pos) : pos \in cells})
  ELSE ChebyshevDistance(fromNode.gridPos, f.goal.gridPos)

\* int((newWeight + h) * 100)
Priority(newWeight, h) == F32Times(F32Add(newWeight, F32(h, 0)), 100).hi

\* a relaxation that replaces the parent of a state and leaves the weight
\* recorded for it as it was
Relax_KeepsWeight(f, r, t, current, curWeight, n) ==
  LET newWeight == F32Add(curWeight, weight(f, r, current, n))
  IN IF n \notin DOMAIN f.weights \/ F32Less(newWeight, f.weights[n])
     THEN [f EXCEPT !.cameFrom = Put(f.cameFrom, n, current),
                    !.weights = IF n \in DOMAIN f.weights THEN f.weights
                                ELSE Put(f.weights, n, newWeight),
                    !.openSet = Push(f.openSet, n,
                                     Priority(newWeight, goalDistance(f, t, n) + n.via)),
                    !.replaced = IF n \in DOMAIN f.cameFrom
                                 THEN f.replaced \cup {n} ELSE f.replaced]
     ELSE f

\* a relaxation that takes every neighbour, whatever weight it has already
Relax_Always(f, r, t, current, curWeight, n) ==
  LET newWeight == F32Add(curWeight, weight(f, r, current, n))
  IN [f EXCEPT !.cameFrom = Put(f.cameFrom, n, current),
               !.weights = Put(f.weights, n, newWeight),
               !.openSet = Push(f.openSet, n,
                                Priority(newWeight, goalDistance(f, t, n) + n.via))]

\* the callback run passes to neighbours, applied to n
Relax(f, r, t, current, curWeight, n) ==
  LET newWeight == F32Add(curWeight, weight(f, r, current, n))
  IN IF n \notin DOMAIN f.weights \/ F32Less(newWeight, f.weights[n])
     THEN [f EXCEPT !.cameFrom = Put(f.cameFrom, n, current),
                    !.weights = Put(f.weights, n, newWeight),
                    !.openSet = Push(f.openSet, n,
                                     Priority(newWeight, goalDistance(f, t, n) + n.via)),
                    !.replaced = IF n \in DOMAIN f.cameFrom
                                 THEN f.replaced \cup {n} ELSE f.replaced]
     ELSE f

RECURSIVE RelaxAll(_, _, _, _, _, _, _)
RelaxAll(f, r, t, current, curWeight, ns, i) ==
  IF i > Len(ns) THEN f
  ELSE RelaxAll(Relax(f, r, t, current, curWeight, ns[i]), r, t, current, curWeight, ns, i + 1)

\* the loop of buildRoute from c on: the states walked (goal first), and
\* whether it ended in a panic
RECURSIVE WalkBack(_, _, _, _, _)
WalkBack(f, c, i, maxIter, walked) ==
  IF i >= maxIter THEN [walked |-> walked, panic |-> TRUE]
  ELSE LET w == Append(walked, c)
       IN IF c \notin DOMAIN f.cameFrom THEN [walked |-> w, panic |-> FALSE]
          ELSE IF f.cameFrom[c] = c THEN [walked |-> w, panic |-> TRUE]
          ELSE WalkBack(f, f.cameFrom[c], i + 1, maxIter, w)

\* a path left in the order it was walked, the goal first
Reverse_Kept(s) == s

Reverse(s) == [i \in 1..Len(s) |-> s[Len(s) - i + 1]]

\* routeFinder.buildRoute from a pos that has a parent
buildPath(f, pos, w) ==
  LET maxIter == Cardinality(DOMAIN f.cameFrom) + 1
      b == WalkBack(f, f.cameFrom[pos], 0, maxIter, <<pos>>)
      chain == Reverse(b.walked)
      line == [i \in 1..Len(chain) |-> ToVec(chain[i].gridPos)]
  IN IF b.panic
     THEN [f EXCEPT !.status = "done", !.result = << >>, !.panicked = TRUE]
     ELSE [f EXCEPT !.status = "done",
                    !.result = <<[id |-> f.linkId, path |-> Fix(line), weight |-> w]>>,
                    !.chain = chain]

\* a buildRoute that returns the path of a pos without a parent too
buildRoute_NoParentTest(f, pos, w) ==
  IF pos \notin DOMAIN f.cameFrom
  THEN [f EXCEPT !.status = "done",
                 !.result = <<[id |-> f.linkId, path |-> <<ToVec(pos.gridPos)>>, weight |-> w]>>,
                 !.chain = <<pos>>]
  ELSE buildPath(f, pos, w)

\* routeFinder.buildRoute: the finder after run has returned its result
buildRoute(f, pos, w) ==
  IF pos \notin DOMAIN f.cameFrom
  THEN [f EXCEPT !.status = "done", !.result = << >>]
  ELSE buildPath(f, pos, w)

\* the goal test of run
IsGoal(f, r, current) ==
  /\ current.via = f.goal.via
  /\ \/ current.gridPos = f.goal.gridPos
     \/ Lookup(r.nodes, current.gridPos, "") = f.goalNode

\* the loop of routeFinder.run without the test of iterNum
runStep_NoLimit(f, r, t) ==
  IF Len(f.openSet) = 0
  THEN [f EXCEPT !.status = "done", !.result = << >>]
  ELSE
    LET current == PopValue(f.openSet)
        f1 == [f EXCEPT !.openSet = Pop(f.openSet)]
        curWeight == f.weights[current]
    IN IF IsGoal(f, r, current)
       THEN buildRoute(f1, current, curWeight)
       ELSE [RelaxAll(f1, r, t, current, curWeight, neighbours(f1, r, current), 1)
               EXCEPT !.iterNum = f.iterNum + 1]

\* one iteration of the loop of routeFinder.run, its exit test included
runStep(f, r, t) ==
  IF Len(f.openSet) = 0 \/ f.iterNum >= searchLimit
  THEN [f EXCEPT !.status = "done", !.result = << >>]
  ELSE
    LET current == PopValue(f.openSet)
        f1 == [f EXCEPT !.openSet = Pop(f.openSet)]
        curWeight == f.weights[current]
    IN IF IsGoal(f, r, current)
       THEN buildRoute(f1, current, curWeight)
       ELSE [RelaxAll(f1, r, t, current, curWeight, neighbours(f1, r, current), 1)
               EXCEPT !.iterNum = f.iterNum + 1]

\* the start positions routeLink collects for a multi-cell start node
RECURSIVE StartRow(_, _, _)
StartRow(b, x, acc) ==
  IF x >= b.maxX THEN acc
  ELSE StartRow(b, x + 1, acc \o <<GridPos(x, b.minY), GridPos(x, b.maxY - 1)>>)

RECURSIVE StartColumn(_, _, _)
StartColumn(b, y, acc) ==
  IF y >= b.maxY THEN acc
  ELSE StartColumn(b, y + 1, acc \o <<GridPos(b.minX, y), GridPos(b.maxX - 1, y)>>)

StartPositions(start) ==
  IF IsMultiCell(start)
  THEN LET b == CellBounds(start)
       IN StartColumn(b, b.minY + 1, StartRow(b, b.minX, << >>))
  ELSE <<PosOf(start.Pos)>>

\* a finder whose search is over without a route (run or routeLink
\* returned nil)
NoFinder ==
  [startNode |-> "", goalNode |-> "", goal |-> gridNode(GridPos(0, 0), 0, 0, 0),
   goalIsMulti |-> FALSE, vias |-> << >>, linkId |-> "",
   cameFrom |-> EmptyMap, openSet |-> << >>, weights |-> EmptyMap,
   iterNum |-> 0, status |-> "done", result |-> << >>, chain |-> << >>,
   panicked |-> FALSE, replaced |-> {}]

RECURSIVE PushStarts(_, _, _, _)
PushStarts(f, startPositions, nvias, i) ==
  IF i > Len(startPositions) THEN f
  ELSE LET node == gridNode(startPositions[i], 0, 0, nvias)
       IN PushStarts([f EXCEPT !.openSet = Push(f.openSet, node, 0),
                               !.weights = Put(f.weights, node, F32(0, 0))],
                     startPositions, nvias, i + 1)

\* routeFinder.run up to its loop
run(f, startPositions, goal, vias) ==
  IF Len(startPositions) = 0
  THEN [f EXCEPT !.status = "done"]
  ELSE PushStarts([f EXCEPT !.goal = gridNode(goal, 0, 0, 0), !.vias = vias,
                            !.status = "running"],
                  startPositions, Len(vias), 1)

\* routeLink without the test of the goal node: goal.IsMultiCell() and
\* goal.Pos[0] on a missing node or position panic
routeLink_NoGoalTest(t, r, id) ==
  IF id \notin DOMAIN t.Links THEN NoFinder
  ELSE
    LET link == t.Links[id]
        start == GetNode(t, link.From)
        goal == GetNode(t, link.To)
    IN IF start = << >> \/ start[1].Pos = << >> THEN [NoFinder EXCEPT !.linkId = id]
       ELSE IF goal = << >> \/ goal[1].Pos = << >>
       THEN [NoFinder EXCEPT !.linkId = id, !.panicked = TRUE]
       ELSE run([NoFinder EXCEPT !.startNode = link.From, !.goalNode = link.To,
                                 !.goalIsMulti = IsMultiCell(goal[1]), !.linkId = id],
                StartPositions(start[1]),
                PosOf(goal[1].Pos),
                [i \in 1..Len(link.Via) |-> PosOf(link.Via[i])])

\* LinkRouter.routeLink up to the loop of run
routeLink(t, r, id) ==
  IF id \notin DOMAIN t.Links THEN NoFinder
  ELSE
    LET link == t.Links[id]
        start == GetNode(t, link.From)
        goal == GetNode(t, link.To)
    IN IF start = << >> \/ start[1].Pos = << >> THEN [NoFinder EXCEPT !.linkId = id]
       ELSE IF goal = << >> \/ goal[1].Pos = << >> THEN [NoFinder EXCEPT !.linkId = id]
       ELSE run([NoFinder EXCEPT !.startNode = link.From, !.goalNode = link.To,
                                 !.goalIsMulti = IsMultiCell(goal[1]), !.linkId = id],
                StartPositions(start[1]),
                PosOf(goal[1].Pos),
                [i \in 1..Len(link.Via) |-> PosOf(link.Via[i])])


\* ------------------------------------------------------------ direction

directionNone == 0
directionN == 1
directionNE == 2
directionE == 3
directionSE == 4
directionS == 5
directionSW == 6
directionW == 7
directionNW == 8

\* unicode.ToLower of one character; the letters A to Z are the only
\* characters whose lower case is a character of a direction name
LowerChar(c) ==
  CASE c = "A" -> "a"
    [] c = "B" -> "b"
    [] c = "C" -> "c"
    [] c = "D" -> "d"
    [] c = "E" -> "e"
    [] c = "F" -> "f"
    [] c = "G" -> "g"
    [] c = "H" -> "h"
    [] c = "I" -> "i"
    [] c = "J" -> "j"
    [] c = "K" -> "k"
    [] c = "L" -> "l"
    [] c = "M" -> "m"
    [] c = "N" -> "n"
    [] c = "O" -> "o"
    [] c = "P" -> "p"
    [] c = "Q" -> "q"
    [] c = "R" -> "r"
    [] c = "S" -> "s"
    [] c = "T" -> "t"
    [] c = "U" -> "u"
    [] c = "V" -> "v"
    [] c = "W" -> "w"
    [] c = "X" -> "x"
    [] c = "Y" -> "y"
    [] c = "Z" -> "z"
    [] OTHER -> c

\* strings.ToLower
RECURSIVE ToLower(_)
ToLower(s) ==
  IF s = "" THEN ""
  ELSE LowerChar(SubSeq(s, 1, 1)) \o ToLower(SubSeq(s, 2, Len(s)))

directionFromString(str) ==
  LET s == ToLower(str)
  IN
  CASE s \in {"n", "north"} -> directionN
    [] s \in {"ne", "northeast", "north-east"} -> directionNE
    [] s \in {"e", "east"} -> directionE
    [] s \in {"se", "southeast", "south-east"} -> directionSE
    [] s \in {"s", "south"} -> directionS
    [] s \in {"sw", "southwest", "south-west"} -> directionSW
    [] s \in {"w", "west"} -> directionW
    [] s \in {"nw", "northwest", "north-west"} -> directionNW
    [] OTHER -> directionNone

\* direction.Opposite
Opposite(d) ==
  CASE d = directionN -> directionS
    [] d = directionNE -> directionSW
    [] d = directionE -> directionW
    [] d = directionSE -> directionNW
    [] d = directionS -> directionN
    [] d = directionSW -> directionNE
    [] d = directionW -> directionE
    [] d = directionNW -> directionSE
    [] OTHER -> d

\* direction.AsVec
AsVec(d) ==
  CASE d = directionN -> [X |-> 0, Y |-> -1]
    [] d = directionNE -> [X |-> 1, Y |-> -1]
    [] d = directionE -> [X |-> 1, Y |-> 0]
    [] d = directionSE -> [X |-> 1, Y |-> 1]
    [] d = directionS -> [X |-> 0, Y |-> 1]
    [] d = directionSW -> [X |-> -1, Y |-> 1]
    [] d = directionW -> [X |-> -1, Y |-> 0]
    [] d = directionNW -> [X |-> -1, Y |-> -1]
    [] OTHER -> [X |-> 0, Y |-> 0]

\* direction.moveGridPos
moveGridPos(d, p) == LET v == AsVec(d) IN GridPos(p.X + v.X, p.Y + v.Y)

\* direction.String
DirectionString(d) ==
  CASE d = directionN -> "n"
    [] d = directionNE -> "ne"
    [] d = directionE -> "e"
    [] d = directionSE -> "se"
    [] d = directionS -> "s"
    [] d = directionSW -> "sw"
    [] d = directionW -> "w"
    [] d = directionNW -> "nw"
    [] OTHER -> ""

\* ------------------------------------------------------------ PlaceLabels
\* evaluatePosition: 50 / (dist*dist) in float32, where dist is the float32
\* f32.Hypot of two whole numbers whose squares add up to d2
Quotient50(d2) ==
  CASE d2 = 1 -> F32(50, 0)
    [] d2 = 2 -> F32(25, 32)
    [] d2 = 4 -> F32(12, 8388608)
    [] d2 = 5 -> F32(10, 0)
    [] d2 = 8 -> F32(6, 4194312)
    [] d2 = 9 -> F32(5, 9320672)
    [] d2 = 10 -> F32(5, 0)
    [] d2 = 13 -> F32(3, 14196104)
    [] d2 = 16 -> F32(3, 2097152)
    [] d2 = 17 -> F32(2, 15790320)
    [] d2 = 18 -> F32(2, 13048952)
    [] d2 = 20 -> F32(2, 8388608)
    [] d2 = 25 -> F32(2, 0)
    [] d2 = 26 -> F32(1, 15486660)
    [] d2 = 29 -> F32(1, 12149018)
    [] d2 = 32 -> F32(1, 9437186)
    [] d2 = 34 -> F32(1, 7895164)
    [] d2 = 41 -> F32(1, 3682804)
    [] d2 = 50 -> F32(1, 0)

\* evaluatePosition: 100 / (dist*dist) in float32, dist as above
Quotient100(d2) ==
  CASE d2 = 1 -> F32(100, 0)
    [] d2 = 2 -> F32(50, 64)
    [] d2 = 4 -> F32(25, 0)
    [] d2 = 5 -> F32(20, 0)
    [] d2 = 8 -> F32(12, 8388624)
    [] d2 = 9 -> F32(11, 1864128)
    [] d2 = 10 -> F32(10, 0)
    [] d2 = 13 -> F32(7, 11614992)
    [] d2 = 16 -> F32(6, 4194304)
    [] d2 = 17 -> F32(5, 14803424)
    [] d2 = 18 -> F32(5, 9320688)
    [] d2 = 20 -> F32(5, 0)
    [] d2 = 25 -> F32(4, 0)
    [] d2 = 26 -> F32(3, 14196104)
    [] d2 = 29 -> F32(3, 7520820)
    [] d2 = 32 -> F32(3, 2097156)
    [] d2 = 34 -> F32(2, 15790328)
    [] d2 = 41 -> F32(2, 7365608)
    [] d2 = 50 -> F32(2, 0)

\* PlaceLabels, the two loops that record the occupied squares
FillGrid(t) ==
  LET placed == {id \in DOMAIN t.Nodes : t.Nodes[id].Pos # << >>}
  IN {PosOf(t.Nodes[id].Pos) : id \in placed}
     \cup {moveGridPos(directionFromString(t.Nodes[id].LabelAt), PosOf(t.Nodes[id].Pos)) :
             id \in placed}
     \cup UNION {{ToGridPos(t.Links[l].Route[i]) : i \in 1..Len(t.Links[l].Route)} :
                   l \in DOMAIN t.Links}

\* evaluatePosition, the base cost of the direction
DirCost(dir) == IF dir \in {directionN, directionE, directionS, directionW} THEN 50 ELSE 100

\* evaluatePosition, score += dirCost / (dist*dist) for the nodes the range
\* visits from the k-th on; order is the order of the range over nodes
RECURSIVE NodeScore(_, _, _, _, _, _, _)
NodeScore(score, pos, dir, id, nodes, order, k) ==
  IF k > Len(order) THEN score
  ELSE LET nid == order[k]
       IN IF nid = id \/ nodes[nid].Pos = << >>
          THEN NodeScore(score, pos, dir, id, nodes, order, k + 1)
          ELSE LET p == PosOf(nodes[nid].Pos)
                   d2 == (pos.X - p.X) * (pos.X - p.X) + (pos.Y - p.Y) * (pos.Y - p.Y)
                   quotient == IF DirCost(dir) = 50 THEN Quotient50(d2) ELSE Quotient100(d2)
               IN NodeScore(F32Add(score, quotient), pos, dir, id, nodes, order, k + 1)

\* evaluatePosition, the penalty for the occupied cell in direction d of pos
CellPenalty(pos, dir, d, fill) ==
  IF d = Opposite(dir) \/ moveGridPos(d, pos) \notin fill THEN 0
  ELSE IF d \in {directionE, directionW} THEN 50 ELSE 5

\* evaluatePosition, score += penalty for the directions from d on
RECURSIVE Penalties(_, _, _, _, _)
Penalties(score, pos, dir, d, fill) ==
  IF d > directionNW THEN score
  ELSE Penalties(F32Add(score, F32(CellPenalty(pos, dir, d, fill), 0)), pos, dir, d + 1, fill)

evaluatePosition(pos, dir, id, nodes, fill, order) ==
  Penalties(NodeScore(F32(0, 0), pos, dir, id, nodes, order, 1), pos, dir, directionN, fill)

\* the scores evaluatePosition may return: a float32 sum depends on the order
\* of its terms, which is one of orders, the orders the range over nodes may
\* visit the nodes that have a term in
Scores(pos, dir, id, nodes, fill, orders) ==
  {evaluatePosition(pos, dir, id, nodes, fill, order) : order \in orders}

\* PlaceLabels, the loop over the directions from i on; bests holds every
\* [dir, score] that bestDir and bestScore may hold before direction i
RECURSIVE BestFrom(_, _, _, _, _, _, _)
BestFrom(pos, id, nodes, fill, orders, i, bests) ==
  IF i > directionNW THEN bests
  ELSE LET candidatePos == moveGridPos(i, pos)
       IN IF candidatePos \in fill THEN BestFrom(pos, id, nodes, fill, orders, i + 1, bests)
          ELSE BestFrom(pos, id, nodes, fill, orders, i + 1,
                        {IF best.dir = directionNone \/ F32Less(score, best.score)
                         THEN [dir |-> i, score |-> score] ELSE best :
                           best \in bests,
                           score \in Scores(candidatePos, i, id, nodes, fill, orders)})

\* a placement loop that does not record the cell it has chosen
PlaceLabel_NoMark(c, id) ==
  LET node == c.topo.Nodes[id]
  IN IF node.Pos = << >> \/ node.LabelAt # "" THEN {c}
     ELSE LET pos == PosOf(node.Pos)
              others == {nid \in DOMAIN c.topo.Nodes :
                           nid # id /\ c.topo.Nodes[nid].Pos # << >>}
              bests == BestFrom(pos, id, c.topo.Nodes, c.fill, Orders(others), directionN,
                                {[dir |-> directionNone, score |-> F32(0, 0)]})
          IN {IF best.dir = directionNone THEN c
              ELSE [topo |-> [c.topo EXCEPT !.Nodes[id].LabelAt = DirectionString(best.dir)],
                    fill |-> c.fill] : best \in bests}

\* PlaceLabels, the body of the placement loop for node id; c is [topo, fill];
\* the outcomes the body may have
PlaceLabel(c, id) ==
  LET node == c.topo.Nodes[id]
  IN IF node.Pos = << >> \/ node.LabelAt # "" THEN {c}
     ELSE LET pos == PosOf(node.Pos)
              others == {nid \in DOMAIN c.topo.Nodes :
                           nid # id /\ c.topo.Nodes[nid].Pos # << >>}
              bests == BestFrom(pos, id, c.topo.Nodes, c.fill, Orders(others), directionN,
                                {[dir |-> directionNone, score |-> F32(0, 0)]})
          IN {IF best.dir = directionNone THEN c
              ELSE [topo |-> [c.topo EXCEPT !.Nodes[id].LabelAt = DirectionString(best.dir)],
                    fill |-> c.fill \cup {moveGridPos(best.dir, pos)}] : best \in bests}

\* ------------------------------------------------------------ sorting

\* the place x, appended after sorted[1..j], is moved to: it changes places
\* with the element before it for as long as it is less than that element
RECURSIVE InsertAt(_, _, _, _)
InsertAt(sorted, x, less, j) ==
  IF j >= 1 /\ less[x][sorted[j]] THEN InsertAt(sorted, x, less, j - 1) ELSE j + 1

RECURSIVE SortFrom(_, _, _, _)
SortFrom(n, less, i, sorted) ==
  IF i > n THEN sorted
  ELSE LET k == InsertAt(sorted, i, less, Len(sorted))
       IN SortFrom(n, less, i + 1,
                   SubSeq(sorted, 1, k - 1) \o <<i>> \o SubSeq(sorted, k, Len(sorted)))

\* slices.SortStableFunc, which sorts up to 20 elements by insertion: less[i][j]
\* says that the comparison of element i with element j is negative
SortStable(s, less) ==
  LET order == SortFrom(Len(s), less, 1, << >>)
  IN [i \in 1..Len(s) |-> s[order[i]]]

\* the first comparison of RouteLinks: by weight
ByWeight(s) ==
  [i \in 1..Len(s) |-> [j \in 1..Len(s) |-> F32Less(s[i].weight, s[j].weight)]]

\* f32.Hypot of two whole numbers whose squares add up to d2
Hypot(d2) ==
  CASE d2 = 0 -> F32(0, 0)
    [] d2 = 1 -> F32(1, 0)
    [] d2 = 2 -> F32(1, 6949350)
    [] d2 = 4 -> F32(2, 0)
    [] d2 = 5 -> F32(2, 3960564)
    [] d2 = 8 -> F32(2, 13898700)
    [] d2 = 9 -> F32(3, 0)
    [] d2 = 10 -> F32(3, 2722568)
    [] d2 = 13 -> F32(3, 10159464)
    [] d2 = 16 -> F32(4, 0)
    [] d2 = 17 -> F32(4, 2065368)
    [] d2 = 18 -> F32(4, 4070832)
    [] d2 = 20 -> F32(4, 7921128)
    [] d2 = 25 -> F32(5, 0)
    [] d2 = 32 -> F32(5, 11020184)

\* Vec2.Length of p2.Sub(p1)
SegmentLength(p1, p2) ==
  Hypot((p2.X - p1.X) * (p2.X - p1.X) + (p2.Y - p1.Y) * (p2.Y - p1.Y))

\* f32.Sum of vals[from..to]: one after the other up to 8 values, and else the
\* sum of the sums of the two halves
RECURSIVE SumRange(_, _, _)
SumRange(vals, from, to) ==
  LET n == to - from + 1
      Running[i \in (from - 1)..to] ==
        IF i < from THEN F32(0, 0) ELSE F32Add(Running[i - 1], vals[i])
  IN IF n <= 8 THEN Running[to]
     ELSE F32Add(SumRange(vals, from, from + n \div 2 - 1),
                 SumRange(vals, from + n \div 2, to))

\* Polyline.Length
Length(pl) ==
  IF Len(pl) <= 1 THEN F32(0, 0)
  ELSE SumRange([i \in 1..(Len(pl) - 1) |-> SegmentLength(pl[i], pl[i + 1])],
                1, Len(pl) - 1)

\* aWeightRatio - bWeightRatio < 0
RatioLess(a, b) ==
  QuotientLess(F32Quotient(Length(a.path), a.weight),
               F32Quotient(Length(b.path), b.weight))

\* the second comparison of RouteLinks: by length over weight
ByRatio(s) == [i \in 1..Len(s) |-> [j \in 1..Len(s) |-> RatioLess(s[i], s[j])]]

RECURSIVE AddRoutes(_, _, _)
AddRoutes(r, rs, i) ==
  IF i > Len(rs) THEN r ELSE AddRoutes(addRoute(r, rs[i].id, rs[i].path), rs, i + 1)


\* ------------------------------------------------------------ inputs

Node(id, pos, labelAt, extents) ==
  [Id |-> id, Pos |-> pos, LabelAt |-> labelAt, Extents |-> extents]

Link(from, to, via, route) == [From |-> from, To |-> to, Via |-> via, Route |-> route]

DefaultOptions ==
  [AvoidNodes |-> TRUE, AttachMultiCellsCardinal |-> TRUE,
   SpreadLinks |-> TRUE, Orthogonal |-> FALSE]

\* an input: a topology, the options set on the router and the arguments of
\* a SetExtents call (<< >>: SetExtents is not called)
Input(nodes, links, options, extents) ==
  [topo |-> [Nodes |-> nodes, Links |-> links], options |-> options, extents |-> extents]

Cells == {<<x, y>> : x \in 0..GridMax, y \in 0..GridMax}

One(id, node) == id :> node

Plain(id, pos) == id :> Node(id, pos, "", << >>)

NoRoute(id, from, to) == id :> Link(from, to, << >>, << >>)

\* two single-cell nodes, B anywhere (also on A's cell), and one link
PairInputs ==
  {Input(Plain("A", <<0, 0>>) @@ Plain("B", b),
         NoRoute("A-B", "A", "B"),
         DefaultOptions, << >>) : b \in Cells}

\* three single-cell nodes and three links in a cycle, the first link
\* without a via or with one
TriangleInputs ==
  {Input(Plain("A", <<0, 0>>) @@ Plain("B", <<GridMax, 0>>) @@ Plain("C", <<x, GridMax>>),
         NoRoute("A-B", "A", "B") @@ NoRoute("B-C", "B", "C") @@ NoRoute("C-A", "C", "A"),
         DefaultOptions, << >>) : x \in 0..GridMax}
  \cup
  {Input(Plain("A", <<0, 0>>) @@ Plain("B", <<GridMax, 0>>) @@ Plain("C", <<0, GridMax>>),
         "A-B" :> Link("A", "B", <<<<1, 1>>>>, << >>)
           @@ NoRoute("B-C", "B", "C") @@ NoRoute("C-A", "C", "A"),
         DefaultOptions, << >>)}

\* the cells of the two lowest rows
Band == {<<x, y>> : x \in 0..GridMax, y \in 0..1}

\* a link with one via, or with two vias, in the band: also on A's cell, on
\* B's cell, and twice the same cell
ViaInputs ==
  {Input(Plain("A", <<0, 0>>) @@ Plain("B", <<2, 0>>),
         "A-B" :> Link("A", "B", via, << >>),
         DefaultOptions, << >>) :
     via \in {<<v>> : v \in Band} \cup {<<<<1, 1>>, v>> : v \in Band}}

\* two or three links between the same two nodes
ParallelInputs ==
  {Input(Plain("A", <<0, 0>>) @@ Plain("B", <<x, 1>>),
         NoRoute("L1", "A", "B") @@ NoRoute("L2", "A", "B"),
         DefaultOptions, << >>) : x \in 1..GridMax}
  \cup
  {Input(Plain("A", <<0, 0>>) @@ Plain("B", <<GridMax, y>>),
         NoRoute("L1", "A", "B") @@ NoRoute("L2", "B", "A") @@ NoRoute("L3", "A", "B"),
         DefaultOptions, << >>) : y \in 1..2}

\* the sizes of the multi-cell nodes
Sizes == {<<1, 1>>, <<2, 2>>, <<3, 1>>, <<2, 3>>}

\* parallel links between two multi-cell nodes, a link from and to a
\* single-cell node, and a link from a node inside the rectangle of another
MultiInputs ==
  {Input(One("A", Node("A", <<0, 0>>, "", ea)) @@ One("B", Node("B", <<GridMax, 2>>, "", eb))
           @@ Plain("C", <<0, GridMax>>),
         NoRoute("L1", "A", "B") @@ NoRoute("L2", "A", "B") @@ NoRoute("L3", "C", "B"),
         DefaultOptions, << >>) : ea \in {<<2, 2>>}, eb \in Sizes}
  \cup
  {Input(One("A", Node("A", <<0, 0>>, "", e)) @@ Plain("B", <<2, 1>>),
         NoRoute("L1", "A", "B") @@ NoRoute("L2", "B", "A"),
         DefaultOptions, << >>) : e \in Sizes}
  \cup
  \* the single-cell A lies on a cell of the rectangle of B
  {Input(Plain("A", <<2, 1>>) @@ One("B", Node("B", <<3, 2>>, "", <<2, 2>>)),
         NoRoute("L1", "A", "B"),
         DefaultOptions, << >>)}

\* a route as the input gives it
Pts(cells) == [i \in 1..Len(cells) |-> ToVec(PosOf(cells[i]))]

\* one link of three comes with its route, or all links do
PreroutedInputs ==
  {Input(Plain("A", <<0, 0>>) @@ Plain("B", <<2, 0>>) @@ Plain("C", <<1, 2>>),
         "A-B" :> Link("A", "B", << >>, Pts(ab))
           @@ "B-C" :> Link("B", "C", << >>, Pts(bc))
           @@ NoRoute("A-C", "A", "C"),
         DefaultOptions, << >>) :
     ab \in {<<<<0, 0>>, <<1, 0>>, <<2, 0>>>>, <<<<0, 0>>, <<1, 1>>, <<2, 0>>>>},
     bc \in {<< >>, <<<<2, 0>>, <<1, 1>>, <<1, 2>>>>}}
  \cup
  {Input(Plain("A", <<0, 0>>) @@ Plain("B", <<2, 0>>),
         "A-B" :> Link("A", "B", << >>, Pts(<<<<0, 0>>, <<1, 1>>, <<2, 0>>>>)),
         DefaultOptions, << >>)}

\* a link whose From or To node is missing or has no position, next to a
\* link that can be routed
MissingInputs ==
  {Input(Plain("A", <<0, 0>>) @@ Plain("B", <<2, 1>>) @@ Plain("N", << >>),
         "bad" :> Link(from, to, << >>, << >>) @@ NoRoute("A-B", "A", "B"),
         DefaultOptions, << >>) :
     from \in {"A", "N", "Z"}, to \in {"B", "N", "Z"}}
  \ {Input(Plain("A", <<0, 0>>) @@ Plain("B", <<2, 1>>) @@ Plain("N", << >>),
           NoRoute("bad", "A", "B") @@ NoRoute("A-B", "A", "B"),
           DefaultOptions, << >>)}

\* nodes that come with their label direction
LabelInputs ==
  {Input(Plain("A", <<0, 1>>) @@ Plain("B", <<2, 1>>)
           @@ One("C", Node("C", <<1, 2>>, l, << >>)),
         NoRoute("A-B", "A", "B") @@ NoRoute("A-C", "A", "C"),
         DefaultOptions, << >>) : l \in {"n", "nw", "c", "s"}}
  \cup
  {Input(Plain("A", <<0, 0>>) @@ Plain("B", <<2, 2>>)
           @@ One("C", Node("C", <<2, 0>>, "w", << >>))
           @@ One("D", Node("D", <<0, 2>>, "n", << >>))
           @@ One("E", Node("E", <<2, 1>>, l, << >>)),
         NoRoute("A-B", "A", "B"),
         DefaultOptions, << >>) : l \in {"w", "e"}}

\* SetExtents is called: with a margin around the nodes, with the corners
\* swapped, with B or A outside, with the cells between A and B outside
ExtentsInputs ==
  {Input(Plain("A", <<0, 0>>) @@ Plain("B", <<2, 1>>),
         NoRoute("A-B", "A", "B"),
         DefaultOptions, e) :
     e \in {<<-1, -1, 3, 2>>, <<3, 2, -1, -1>>, <<0, 0, 1, 1>>, <<1, 0, 2, 1>>,
            <<0, 0, 0, 0>>, <<2, 1, 2, 1>>}}

\* SetExtents is called and the via of the link lies inside or outside
ExtentsViaInputs ==
  {Input(Plain("A", <<0, 0>>) @@ Plain("B", <<2, 0>>),
         "A-B" :> Link("A", "B", <<v>>, << >>),
         DefaultOptions, <<0, 0, 2, 1>>) : v \in {<<1, 1>>, <<1, 2>>, <<3, 0>>}}

\* the cells around <<1, 1>>
Ring == <<<<2, 0>>, <<1, 0>>, <<0, 0>>, <<0, 1>>, <<0, 2>>, <<1, 2>>, <<2, 2>>, <<2, 1>>>>

\* node A without a label direction, and a link that comes with a route along
\* k cells around A; with or without a multi-cell node B next to A
PlacementInputs ==
  {Input(Plain("A", <<1, 1>>) @@ Plain("C", Ring[1]) @@ Plain("D", Ring[k]),
         "C-D" :> Link("C", "D", << >>, Pts(SubSeq(Ring, 1, k))),
         DefaultOptions, << >>) : k \in 2..Len(Ring)}
  \cup
  {Input(Plain("A", <<1, 1>>) @@ Plain("C", Ring[1]) @@ Plain("D", Ring[k])
           @@ One("B", Node("B", <<3, 2>>, "", <<2, 2>>)),
         "C-D" :> Link("C", "D", << >>, Pts(SubSeq(Ring, 1, k))),
         DefaultOptions, << >>) : k \in 2..(Len(Ring) - 2)}

\* the straight route from A to B crosses the diagonal link C-D next to A;
\* C-D comes with its route or without
CrossingInputs ==
  {Input(Plain("A", <<1, 1>>) @@ Plain("B", <<GridMax, GridMax>>)
           @@ Plain("C", <<2, 1>>) @@ Plain("D", <<1, 2>>),
         "C-D" :> Link("C", "D", << >>, cd) @@ NoRoute("A-B", "A", "B"),
         DefaultOptions, << >>) : cd \in {<< >>, Pts(<<<<2, 1>>, <<1, 2>>>>)}}

\* a link from a node to itself, with and without a via
SelfInputs ==
  {Input(Plain("A", <<0, 0>>) @@ Plain("B", <<1, 1>>),
         "A-A" :> Link("A", "A", via, << >>),
         DefaultOptions, << >>) : via \in {<< >>, <<<<1, 0>>>>}}

\* every setting of the options
OptionSets ==
  [AvoidNodes : BOOLEAN, AttachMultiCellsCardinal : BOOLEAN,
   SpreadLinks : BOOLEAN, Orthogonal : BOOLEAN]

\* a node between A and B, a multi-cell B, two links; under every setting
OptionInputs ==
  {Input(Plain("A", <<0, 0>>) @@ Plain("C", <<1, 1>>)
           @@ One("B", Node("B", <<GridMax, 2>>, "", <<2, 2>>)),
         NoRoute("L1", "A", "B") @@ NoRoute("L2", "A", "B"),
         o, << >>) : o \in OptionSets}
  \cup
  \* B is next to A on the diagonal, the cells between them hold C and D
  {Input(Plain("A", <<0, 0>>) @@ Plain("B", <<1, 1>>)
           @@ Plain("C", <<1, 0>>) @@ Plain("D", <<0, 1>>),
         NoRoute("A-B", "A", "B"),
         [DefaultOptions EXCEPT !.Orthogonal = o], << >>) : o \in BOOLEAN}
  \cup
  \* a corner of the multi-cell B is next to A on the diagonal, the other
  \* cells next to A hold C and D or lie outside the extents
  {Input(Plain("A", <<1, 0>>) @@ Plain("C", <<2, 0>>) @@ Plain("D", <<1, 1>>)
           @@ One("B", Node("B", <<3, 2>>, "", <<2, 2>>)),
         NoRoute("A-B", "A", "B"),
         [DefaultOptions EXCEPT !.AttachMultiCellsCardinal = o], <<1, 0, 3, 2>>) : o \in BOOLEAN}

\* the goal lies outside extents of more than searchLimit search states: the
\* search gives up at searchLimit
CapInput ==
  Input(Plain("A", <<0, 0>>) @@ Plain("B", <<CapSide + 3, 0>>),
        NoRoute("A-B", "A", "B"),
        DefaultOptions, <<0, 0, CapSide, CapSide>>)

\* searches that give up, searches that run out of cells, searches that succeed
CapInputs == {CapInput} \cup ExtentsInputs \cup ParallelInputs

Inputs ==
  PairInputs \cup TriangleInputs \cup ViaInputs \cup ParallelInputs \cup MultiInputs
  \cup PreroutedInputs \cup MissingInputs \cup LabelInputs \cup ExtentsInputs
  \cup SelfInputs \cup OptionInputs \cup ExtentsViaInputs \cup PlacementInputs
  \cup CrossingInputs

\* ------------------------------------------------------------ state

VARIABLES
  input,      \* the input the run started from
  topo,       \* the topology: RouteLinks writes the routes into it
  router,     \* the LinkRouter
  pc,         \* "new", "made", "ready", "pass1", "pass2", "pass3", "panic",
              \* "labels", "placed"
  f,          \* the routeFinder of the search under way or just finished
  pending,    \* pass 1: the links the range over topo.Links has yet to visit
  routes,     \* RouteLinks' routes
  newRoutes,  \* RouteLinks' newRoutes
  idx,        \* passes 2 and 3: the index of the route being re-routed
  iter,       \* pass 3: the round
  updated,    \* pass 3: updated
  extSet,     \* SetExtents has been called
  calls,      \* the number of RouteLinks calls begun
  atCall,     \* the topology and the router when RouteLinks was last called
  capped,     \* the links a search of the last call gave up at searchLimit
  fillGrid,   \* PlaceLabels' fillGrid
  labelPending \* PlaceLabels: the nodes the placement loop has yet to visit

vars == <<input, topo, router, pc, f, pending, routes, newRoutes, idx, iter,
          updated, extSet, calls, atCall, capped, fillGrid, labelPending>>

Idle == [NoFinder EXCEPT !.status = "idle"]

NoRouter ==
  [AvoidNodes |-> FALSE, AttachMultiCellsCardinal |-> FALSE, SpreadLinks |-> FALSE,
   Orthogonal |-> FALSE, nodes |-> EmptyMap, nodeLabels |-> {}, linkMap |-> EmptyMap,
   extentMin |-> GridPos(0, 0), extentMax |-> GridPos(0, 0)]

\* the program starts on the input in
Start(in) ==
  /\ input = in
  /\ topo = in.topo
  /\ router = NoRouter
  /\ pc = "new"
  /\ f = Idle
  /\ pending = {}
  /\ routes = << >>
  /\ newRoutes = << >>
  /\ idx = 1
  /\ iter = 0
  /\ updated = FALSE
  /\ extSet = FALSE
  /\ calls = 0
  /\ atCall = [topo |-> in.topo, router |-> NoRouter]
  /\ capped = {}
  /\ fillGrid = {}
  /\ labelPending = {}

Init == \E in \in Inputs : Start(in)

\* link.Route = path
SetRoute(t, id, path) == [t EXCEPT !.Links[id].Route = path]

\* ------------------------------------------------------------ actions

\* router := NewLinkRouter(&topo)
NewRouter ==
  /\ pc = "new"
  /\ \E nodeOrder \in Orders(DOMAIN topo.Nodes), linkOrder \in Orders(DOMAIN topo.Links) :
       router' = NewLinkRouter(topo, nodeOrder, linkOrder)
  /\ pc' = "made"
  /\ UNCHANGED <<atCall, capped, input, topo, f, pending, routes, newRoutes, idx, iter, updated, extSet, calls, fillGrid, labelPending>>

\* the exported fields of the router set to the options o
WithOptions(r, o) ==
  [r EXCEPT !.AvoidNodes = o.AvoidNodes,
            !.AttachMultiCellsCardinal = o.AttachMultiCellsCardinal,
            !.SpreadLinks = o.SpreadLinks,
            !.Orthogonal = o.Orthogonal]

\* the caller sets the exported fields of the router
SetOptions ==
  /\ pc = "made"
  /\ router' = WithOptions(router, input.options)
  /\ pc' = "ready"
  /\ UNCHANGED <<atCall, capped, input, topo, f, pending, routes, newRoutes, idx, iter, updated, extSet, calls, fillGrid, labelPending>>

\* router.SetExtents(minX, minY, maxX, maxY)
SetExtentsCall ==
  /\ pc = "ready"
  /\ calls = 0
  /\ ~extSet
  /\ input.extents # << >>
  /\ router' = SetExtents(router, input.extents[1], input.extents[2],
                          input.extents[3], input.extents[4])
  /\ extSet' = TRUE
  /\ UNCHANGED <<atCall, capped, input, topo, pc, f, pending, routes, newRoutes, idx, iter, updated, calls, fillGrid, labelPending>>

\* router.RouteLinks() is called
RouteLinksCall ==
  /\ pc = "ready"
  /\ calls < MaxCalls
  /\ input.extents = << >> \/ extSet
  /\ pc' = "pass1"
  /\ pending' = DOMAIN topo.Links
  /\ routes' = << >>
  /\ newRoutes' = << >>
  /\ calls' = calls + 1
  /\ atCall' = [topo |-> topo, router |-> router]
  /\ capped' = {}
  /\ UNCHANGED <<input, topo, router, f, idx, iter, updated, extSet, fillGrid, labelPending>>

\* a pass 1 that routes the links that have a route too
AlreadyRouted_Never(link) == FALSE

\* pass 1: the link has been routed already
AlreadyRouted(link) == Len(link.Route) > 0

\* pass 1: the range visits the next link and, unless it has a route, starts
\* routeLink for it
Pass1Pick ==
  /\ pc = "pass1"
  /\ f.status = "idle"
  /\ \E id \in pending :
       /\ pending' = pending \ {id}
       /\ f' = IF AlreadyRouted(topo.Links[id]) THEN f ELSE routeLink(topo, router, id)
  /\ pc' = IF f'.panicked THEN "panic" ELSE pc
  /\ UNCHANGED <<atCall, capped, input, topo, router, routes, newRoutes, idx, iter, updated, extSet, calls, fillGrid, labelPending>>

\* a loop of run that lists the link being routed in the cell it expands
SearchStep_Marks ==
  /\ f.status = "running"
  /\ f' = runStep(f, router, topo)
  /\ pc' = IF f'.panicked THEN "panic" ELSE pc
  /\ capped' = IF Len(f.openSet) > 0 /\ f.iterNum >= searchLimit
                THEN capped \cup {f.linkId} ELSE capped
  /\ router' = IF Len(f.openSet) > 0
                THEN addLink(router, PopValue(f.openSet).gridPos, f.linkId)
                ELSE router
  /\ UNCHANGED <<atCall, input, topo, pending, routes, newRoutes, idx, iter, updated, extSet, calls, fillGrid, labelPending>>

\* one iteration of the loop of routeFinder.run
SearchStep ==
  /\ f.status = "running"
  /\ f' = runStep(f, router, topo)
  /\ pc' = IF f'.panicked THEN "panic" ELSE pc
  /\ capped' = IF Len(f.openSet) > 0 /\ f.iterNum >= searchLimit
                THEN capped \cup {f.linkId} ELSE capped
  /\ UNCHANGED <<atCall, input, topo, router, pending, routes, newRoutes, idx, iter, updated, extSet, calls, fillGrid, labelPending>>

\* pass 1 if it added each route to the grid as soon as it is found
Pass1Result_Registers ==
  /\ pc = "pass1"
  /\ f.status = "done"
  /\ IF f.result # << >>
     THEN /\ routes' = Append(routes, f.result[1])
          /\ topo' = SetRoute(topo, f.result[1].id, f.result[1].path)
          /\ router' = addRoute(router, f.result[1].id, f.result[1].path)
     ELSE UNCHANGED <<routes, topo, router>>
  /\ f' = Idle
  /\ UNCHANGED <<atCall, capped, input, pc, pending, newRoutes, idx, iter, updated, extSet, calls, fillGrid, labelPending>>

\* pass 1: routeLink has returned
Pass1Result ==
  /\ pc = "pass1"
  /\ f.status = "done"
  /\ IF f.result # << >>
     THEN /\ routes' = Append(routes, f.result[1])
          /\ topo' = SetRoute(topo, f.result[1].id, f.result[1].path)
     ELSE UNCHANGED <<routes, topo>>
  /\ f' = Idle
  /\ UNCHANGED <<atCall, capped, input, router, pc, pending, newRoutes, idx, iter, updated, extSet, calls, fillGrid, labelPending>>

\* the end of pass 1: the routes are added to the grid and sorted by weight
Pass1End ==
  /\ pc = "pass1"
  /\ f.status = "idle"
  /\ pending = {}
  /\ router' = AddRoutes(router, routes, 1)
  /\ routes' = SortStable(routes, ByWeight(routes))
  /\ newRoutes' = << >>
  /\ idx' = 1
  /\ pc' = "pass2"
  /\ UNCHANGED <<atCall, capped, input, topo, f, pending, iter, updated, extSet, calls, fillGrid, labelPending>>

\* pass 2: routeLink is started for the next route
Pass2Pick ==
  /\ pc = "pass2"
  /\ f.status = "idle"
  /\ idx <= Len(routes)
  /\ f' = routeLink(topo, router, routes[idx].id)
  /\ pc' = IF f'.panicked THEN "panic" ELSE pc
  /\ UNCHANGED <<atCall, capped, input, topo, router, pending, routes, newRoutes, idx, iter, updated, extSet, calls, fillGrid, labelPending>>

\* pass 2: routeLink has returned
Pass2Result ==
  /\ pc = "pass2"
  /\ f.status = "done"
  /\ IF f.result # << >>
     THEN LET route == f.result[1]
          IN /\ router' = moveRoute(router, route.id, routes[idx].path, route.path)
             /\ topo' = SetRoute(topo, route.id, route.path)
             /\ newRoutes' = Append(newRoutes, route)
     ELSE UNCHANGED <<router, topo, newRoutes>>
  /\ idx' = idx + 1
  /\ f' = Idle
  /\ UNCHANGED <<atCall, capped, input, pc, pending, routes, iter, updated, extSet, calls, fillGrid, labelPending>>

\* the end of pass 2: the new routes are sorted by length over weight
Pass2End ==
  /\ pc = "pass2"
  /\ f.status = "idle"
  /\ idx > Len(routes)
  /\ newRoutes' = SortStable(newRoutes, ByRatio(newRoutes))
  /\ idx' = 1
  /\ iter' = 0
  /\ updated' = FALSE
  /\ pc' = "pass3"
  /\ UNCHANGED <<atCall, capped, input, topo, router, f, pending, routes, extSet, calls, fillGrid, labelPending>>

\* pass 3: routeLink is started for the next route of the round
Pass3Pick ==
  /\ pc = "pass3"
  /\ f.status = "idle"
  /\ idx <= Len(newRoutes)
  /\ f' = routeLink(topo, router, newRoutes[idx].id)
  /\ pc' = IF f'.panicked THEN "panic" ELSE pc
  /\ UNCHANGED <<atCall, capped, input, topo, router, pending, routes, newRoutes, idx, iter, updated, extSet, calls, fillGrid, labelPending>>

\* a fix-point pass that also takes a route of the same weight
Improves_OrEqual(route, rt) == ~F32Less(rt.weight, route.weight)

\* pass 3: the route found is better than the recorded route rt
Improves(route, rt) == F32Less(route.weight, rt.weight)

\* pass 3: routeLink has returned
Pass3Result ==
  /\ pc = "pass3"
  /\ f.status = "done"
  /\ IF f.result # << >> /\ Improves(f.result[1], newRoutes[idx])
     THEN LET route == f.result[1]
          IN /\ router' = moveRoute(router, route.id, newRoutes[idx].path, route.path)
             /\ topo' = SetRoute(topo, route.id, route.path)
             /\ newRoutes' = [newRoutes EXCEPT ![idx] = route]
             /\ updated' = TRUE
     ELSE UNCHANGED <<router, topo, newRoutes, updated>>
  /\ idx' = idx + 1
  /\ f' = Idle
  /\ UNCHANGED <<atCall, capped, input, pc, pending, routes, iter, extSet, calls, fillGrid, labelPending>>

\* a fix-point pass without the break after a round without update
AnotherRound_NoBreak == iter + 1 < routeIterLimit

\* the round of pass 3 goes on after this one
AnotherRound == updated /\ iter + 1 < routeIterLimit

\* pass 3: the end of a round; RouteLinks returns unless a route was updated
\* and the iteration limit is not reached
Pass3RoundEnd ==
  /\ pc = "pass3"
  /\ f.status = "idle"
  /\ idx > Len(newRoutes)
  /\ IF AnotherRound
     THEN /\ iter' = iter + 1
          /\ idx' = 1
          /\ updated' = FALSE
          /\ pc' = pc
     ELSE /\ pc' = "ready"
          /\ UNCHANGED <<iter, idx, updated>>
  /\ UNCHANGED <<atCall, capped, input, topo, router, f, pending, routes, newRoutes, extSet, calls, fillGrid, labelPending>>

\* raumata.PlaceLabels(&topo): the occupied squares are recorded
PlaceLabelsCall ==
  /\ pc = "ready"
  /\ calls >= 1
  /\ pc' = "labels"
  /\ fillGrid' = FillGrid(topo)
  /\ labelPending' = DOMAIN topo.Nodes
  /\ UNCHANGED <<atCall, capped, input, topo, router, f, pending, routes, newRoutes, idx, iter, updated, extSet, calls>>

\* PlaceLabels: the placement loop visits the next node of topo.Nodes
PlaceLabelStep ==
  /\ pc = "labels"
  /\ \E id \in labelPending :
       \E c \in PlaceLabel([topo |-> topo, fill |-> fillGrid], id) :
          /\ topo' = c.topo
          /\ fillGrid' = c.fill
          /\ labelPending' = labelPending \ {id}
  /\ UNCHANGED <<atCall, capped, input, router, pc, f, pending, routes, newRoutes, idx, iter, updated, extSet, calls>>

\* PlaceLabels returns
PlaceLabelsReturn ==
  /\ pc = "labels"
  /\ labelPending = {}
  /\ pc' = "placed"
  /\ UNCHANGED <<atCall, capped, input, topo, router, f, pending, routes, newRoutes, idx, iter, updated, extSet, calls, fillGrid, labelPending>>

Next ==
  \/ NewRouter
  \/ SetOptions
  \/ SetExtentsCall
  \/ RouteLinksCall
  \/ Pass1Pick
  \/ SearchStep
  \/ Pass1Result
  \/ Pass1End
  \/ Pass2Pick
  \/ Pass2Result
  \/ Pass2End
  \/ Pass3Pick
  \/ Pass3Result
  \/ Pass3RoundEnd
  \/ PlaceLabelsCall
  \/ PlaceLabelStep
  \/ PlaceLabelsReturn

Spec == Init /\ [][Next]_vars

\* no step is possible: a panic has ended the program, or PlaceLabels has
\* returned
Halted == pc \in {"panic", "placed"}

\* RouteLinks and the search it runs are sequential code: a step that can be
\* taken is taken. This is WF_vars(Next), with ENABLED <<Next>>_vars written
\* out as ~Halted.
FairSpec == Spec /\ ([]<>Halted \/ []<><<Next>>_vars)

\* the loop of routeFinder.run goes into an iteration
Going(fd) == fd.status = "running" /\ Len(fd.openSet) > 0 /\ fd.iterNum < searchLimit

\* the next iterations of the loop of routeFinder.run, 2^k of them at most
RECURSIVE Iterations(_, _, _, _)
Iterations(fd, r, t, k) ==
  IF ~Going(fd) THEN fd
  ELSE IF k = 0 THEN runStep(fd, r, t)
  ELSE Iterations(Iterations(fd, r, t, k - 1), r, t, k - 1)

\* the iterations of the loop of routeFinder.run, up to its return from an
\* iteration or to the failing loop test, taken in runs of 2^k, 2^(k+1), ...
RECURSIVE Loop(_, _, _, _)
Loop(fd, r, t, k) == IF Going(fd) THEN Loop(Iterations(fd, r, t, k), r, t, k + 1) ELSE fd

\* the loop of routeFinder.run, all its iterations in one step
SearchLoop ==
  /\ Going(f)
  /\ f' = Loop(f, router, topo, 0)
  /\ pc' = IF f'.panicked THEN "panic" ELSE pc
  /\ UNCHANGED <<atCall, capped, input, topo, router, pending, routes, newRoutes, idx, iter, updated, extSet, calls, fillGrid, labelPending>>

\* the loop test of routeFinder.run fails: return nil
SearchExit ==
  /\ Len(f.openSet) = 0 \/ f.iterNum >= searchLimit
  /\ SearchStep

\* make-map calls RouteLinks once
RouteLinksOnce == calls = 0 /\ RouteLinksCall

CapInit == \E in \in CapInputs : Start(in)

CapNext ==
  \/ NewRouter
  \/ SetOptions
  \/ SetExtentsCall
  \/ RouteLinksOnce
  \/ Pass1Pick
  \/ SearchLoop
  \/ SearchExit
  \/ Pass1Result
  \/ Pass1End
  \/ Pass2Pick
  \/ Pass2Result
  \/ Pass2End
  \/ Pass3Pick
  \/ Pass3Result
  \/ Pass3RoundEnd

\* one run of make-map on an input of CapInputs, the iterations of a search
\* taken together
CapSpec == CapInit /\ [][CapNext]_vars

\* ------------------------------------------------------------ one execution
\* RouteLinks as a function of the order its first loop ranges over
\* topo.Links in: the execution the actions above take step by step.

\* routeFinder.run: the finder after the loop
RECURSIVE Search(_, _, _)
Search(fd, r, t) == IF fd.status = "running" THEN Search(runStep(fd, r, t), r, t) ELSE fd

\* the route routeLink returns: << >> for nil
RouteOf(t, r, id) == Search(routeLink(t, r, id), r, t).result

\* the first pass from the i-th link of order on; c is [topo, routes]
RECURSIVE FirstPass(_, _, _, _)
FirstPass(c, r, order, i) ==
  IF i > Len(order) THEN c
  ELSE LET id == order[i]
           res == RouteOf(c.topo, r, id)
       IN IF AlreadyRouted(c.topo.Links[id]) \/ res = << >>
          THEN FirstPass(c, r, order, i + 1)
          ELSE FirstPass([topo |-> SetRoute(c.topo, id, res[1].path),
                          routes |-> Append(c.routes, res[1])],
                         r, order, i + 1)

\* the second pass from the i-th route on; c is [topo, router, newRoutes]
RECURSIVE SecondPass(_, _, _)
SecondPass(c, rs, i) ==
  IF i > Len(rs) THEN c
  ELSE LET res == RouteOf(c.topo, c.router, rs[i].id)
       IN IF res = << >> THEN SecondPass(c, rs, i + 1)
          ELSE SecondPass([topo |-> SetRoute(c.topo, res[1].id, res[1].path),
                           router |-> moveRoute(c.router, res[1].id, rs[i].path, res[1].path),
                           newRoutes |-> Append(c.newRoutes, res[1])],
                          rs, i + 1)

\* a round of the fix-point pass from the i-th route on; c is
\* [topo, router, newRoutes, updated]
RECURSIVE Round(_, _)
Round(c, i) ==
  IF i > Len(c.newRoutes) THEN c
  ELSE LET rt == c.newRoutes[i]
           res == RouteOf(c.topo, c.router, rt.id)
       IN IF res # << >> /\ F32Less(res[1].weight, rt.weight)
          THEN Round([topo |-> SetRoute(c.topo, rt.id, res[1].path),
                      router |-> moveRoute(c.router, rt.id, rt.path, res[1].path),
                      newRoutes |-> [c.newRoutes EXCEPT ![i] = res[1]],
                      updated |-> TRUE],
                     i + 1)
          ELSE Round(c, i + 1)

\* the fix-point pass from round i on
RECURSIVE FixPoint(_, _)
FixPoint(c, i) ==
  IF i >= routeIterLimit THEN c
  ELSE LET d == Round([c EXCEPT !.updated = FALSE], 1)
       IN IF ~d.updated THEN d ELSE FixPoint(d, i + 1)

\* LinkRouter.RouteLinks on topology t and router r: the topology after it
RouteLinks(t, r, order) ==
  LET p1 == FirstPass([topo |-> t, routes |-> << >>], r, order, 1)
      r1 == AddRoutes(r, p1.routes, 1)
      rs == SortStable(p1.routes, ByWeight(p1.routes))
      p2 == SecondPass([topo |-> p1.topo, router |-> r1, newRoutes |-> << >>], rs, 1)
      ns == SortStable(p2.newRoutes, ByRatio(p2.newRoutes))
  IN FixPoint([topo |-> p2.topo, router |-> p2.router, newRoutes |-> ns,
               updated |-> FALSE], 0).topo

\* NewLinkRouter, the options, SetExtents if the input asks for it, and
\* RouteLinks, the maps ranged over in the given orders
Execution(in, nodeOrder, linkOrder, order) ==
  LET r0 == WithOptions(NewLinkRouter(in.topo, nodeOrder, linkOrder), in.options)
      r1 == IF in.extents = << >> THEN r0
            ELSE SetExtents(r0, in.extents[1], in.extents[2], in.extents[3], in.extents[4])
  IN RouteLinks(in.topo, r1, order)

\* ------------------------------------------------------------ properties

\* RouteLinks has been called and has returned
Returned == pc = "ready" /\ calls >= 1

\* the links whose Route is not the one the input came with: the routes
\* RouteLinks has written
Written == {id \in DOMAIN topo.Links : topo.Links[id].Route # input.topo.Links[id].Route}

SingleCell(t) == \A n \in DOMAIN t.Nodes : ~IsMultiCell(t.Nodes[n])

\* the node id of t exists and has a position
Placed(t, id) == id \in DOMAIN t.Nodes /\ t.Nodes[id].Pos # << >>

NodePos(t, id) == ToVec(PosOf(t.Nodes[id].Pos))

\* a[i..] is a subsequence of b[j..]
RECURSIVE IsSubseq(_, _, _, _)
IsSubseq(a, i, b, j) ==
  IF i > Len(a) THEN TRUE
  ELSE IF j > Len(b) THEN FALSE
  ELSE IF a[i] = b[j] THEN IsSubseq(a, i + 1, b, j + 1)
  ELSE IsSubseq(a, i, b, j + 1)

NoRepeat(path) == \A i \in 1..(Len(path) - 1) : path[i] # path[i + 1]

\* C1: on a topology whose nodes are all single-cell, once RouteLinks has been
\* called, every link with a non-empty Route has its first point on the
\* position of its From node and its last point on the position of its To node.
C1_RouteEnds ==
  (calls >= 1 /\ SingleCell(topo)) =>
    \A id \in DOMAIN topo.Links :
      LET link == topo.Links[id]
      IN Len(link.Route) > 0 =>
           /\ Placed(topo, link.From)
           /\ Placed(topo, link.To)
           /\ link.Route[1] = NodePos(topo, link.From)
           /\ Last(link.Route) = NodePos(topo, link.To)

\* RouteLinks has returned on a single-cell topology and has written a route
\* of three points or more for a link with a via
C1_Witness ==
  /\ Returned
  /\ SingleCell(topo)
  /\ \E id \in Written :
       Len(topo.Links[id].Via) > 0 /\ Len(topo.Links[id].Route) >= 3

\* the vias of a link as route points
ViaPoints(link) == [i \in 1..Len(link.Via) |-> ToVec(PosOf(link.Via[i]))]

\* along every edge of the search the via index stays, or drops by one on a
\* state whose cell is the pending via
ViaIndexRule ==
  \A n \in DOMAIN f.cameFrom :
    LET p == f.cameFrom[n]
    IN \/ n.via = p.via
       \/ n.via = p.via - 1 /\ getVia(f, p.via) = <<n.gridPos>>

\* the goal state a route was built from has via index 0, and the chain
\* starts with all the vias pending
GoalRule ==
  (f.status = "done" /\ f.result # << >>) =>
    /\ Last(f.chain).via = 0
    /\ f.chain[1].via = Len(f.vias)

\* C2 as stated: every route RouteLinks assigns to a link holds the link's
\* vias, in order, as a subsequence of its points before the final point; a
\* goal state is accepted only with via index 0, and the via index never
\* increases and drops by one only on the pending via cell.
C2_ViasBeforeEnd ==
  /\ \A id \in Written :
       LET link == topo.Links[id]
       IN Len(link.Route) > 0 =>
            IsSubseq(ViaPoints(link), 1, SubSeq(link.Route, 1, Len(link.Route) - 1), 1)
  /\ ViaIndexRule
  /\ GoalRule

\* C2, amended: every route RouteLinks assigns to a link holds the link's
\* vias, in order and equal consecutive vias counted once, as a subsequence
\* of its points, the final point included; a goal state is accepted only
\* with via index 0, and the via index never increases and drops by one only
\* on the pending via cell.
C2_ViasInOrder ==
  /\ \A id \in Written :
       LET link == topo.Links[id]
       IN Len(link.Route) > 0 => IsSubseq(Fix(ViaPoints(link)), 1, link.Route, 1)
  /\ ViaIndexRule
  /\ GoalRule

\* RouteLinks has returned with a route for a link with two vias whose last
\* via is the route's final point
C2_Witness ==
  /\ Returned
  /\ \E id \in Written :
       LET link == topo.Links[id]
       IN /\ Len(link.Via) = 2
          /\ Len(link.Route) > 0
          /\ Last(ViaPoints(link)) = Last(link.Route)

\* the cells of the extents of r
ExtentCells(r) ==
  {GridPos(x, y) : x \in r.extentMin.X..r.extentMax.X, y \in r.extentMin.Y..r.extentMax.Y}

\* every step to a neighbouring cell
AllSteps == {d \in {-1, 0, 1} \X {-1, 0, 1} : d # <<0, 0>>}

\* the steps the options of r allow
Steps(r) == {d \in AllSteps : r.Orthogonal => (d[1] = 0 \/ d[2] = 0)}

Shift(c, d) == GridPos(c.X + d[1], c.Y + d[2])

\* the cells reached from S by steps of D over cells of ok
RECURSIVE Closure(_, _, _)
Closure(S, D, ok) ==
  LET T == S \cup {c \in ok : \E d \in D : Shift(c, <<-d[1], -d[2]>>) \in S}
  IN IF T = S THEN S ELSE Closure(T, D, ok)

\* c is the position of the To node of link or a cell of that node
IsGoalCell(r, t, link, c) ==
  c = PosOf(t.Nodes[link.To].Pos) \/ Lookup(r.nodes, c, "") = link.To

\* the cells of the extents that hold no node other than the ends of link
\* and no fixed label
OpenCells(r, link) ==
  {c \in ExtentCells(r) :
     /\ c \notin r.nodeLabels
     /\ c \in DOMAIN r.nodes => r.nodes[c] \in {link.From, link.To}}

\* the To node of link id is reachable from its From node through the open
\* cells
Reachable(r, t, id) ==
  LET link == t.Links[id]
  IN /\ Placed(t, link.From)
     /\ Placed(t, link.To)
     /\ LET from == PosOf(t.Nodes[link.From].Pos)
            to == PosOf(t.Nodes[link.To].Pos)
            reached == Closure({from}, AllSteps, OpenCells(r, link))
        IN from = to \/ \E c \in reached, d \in AllSteps : Shift(c, d) = to

FreeCells(r) == {c \in ExtentCells(r) : c \notin DOMAIN r.nodes /\ c \notin r.nodeLabels}

\* the goal cells of link: the position of its To node and the cells
\* registered for that node
GoalCells(r, t, link) ==
  {PosOf(t.Nodes[link.To].Pos)} \cup {c \in DOMAIN r.nodes : r.nodes[c] = link.To}

\* step d may enter cell c: a goal cell of link takes any step the options
\* allow, axis-aligned where the options ask for it; any other cell has to be
\* free
MayEnter(r, t, link, c, d) ==
  /\ d \in Steps(r)
  /\ IF c \in GoalCells(r, t, link)
     THEN (IsMultiCell(t.Nodes[link.To]) /\ r.AttachMultiCellsCardinal) => (d[1] = 0 \/ d[2] = 0)
     ELSE c \in FreeCells(r)

\* the cells reached from S by steps that may enter their cell
RECURSIVE Walk(_, _, _, _)
Walk(r, t, link, S) ==
  LET T == S \cup {c \in ExtentCells(r) \cup GoalCells(r, t, link) :
                     \E d \in AllSteps : Shift(c, <<-d[1], -d[2]>>) \in S /\ MayEnter(r, t, link, c, d)}
  IN IF T = S THEN S ELSE Walk(r, t, link, T)

\* a step that may enter c leads into c from a cell reached from S
Enters(r, t, link, S, c) ==
  \E b \in Walk(r, t, link, S), d \in AllSteps : Shift(b, d) = c /\ MayEnter(r, t, link, c, d)

\* from the cells S the vias i, i + 1, ... of link are entered in order and
\* then a goal cell; a last via on a goal cell ends the route
RECURSIVE ViaReach(_, _, _, _, _)
ViaReach(r, t, link, S, i) ==
  IF i > Len(link.Via)
  THEN \/ i > 1 /\ S \subseteq GoalCells(r, t, link)
       \/ \E c \in GoalCells(r, t, link) : Enters(r, t, link, S, c)
  ELSE /\ Enters(r, t, link, S, PosOf(link.Via[i]))
       /\ ViaReach(r, t, link, {PosOf(link.Via[i])}, i + 1)

\* the From and To nodes of link id are placed; a link without vias starts on
\* no goal cell; the vias in order and then a goal cell are reached from a
\* start cell by the steps the options allow over the free cells
Routable(r, t, id) ==
  LET link == t.Links[id]
  IN /\ Placed(t, link.From)
     /\ Placed(t, link.To)
     /\ LET sp == StartPositions(t.Nodes[link.From])
            starts == {sp[i] : i \in 1..Len(sp)}
        IN /\ Len(link.Via) = 0 => starts \cap GoalCells(r, t, link) = {}
           /\ ViaReach(r, t, link, starts, 1)

C4_TwoPoints ==
  /\ \A id \in Written : Len(topo.Links[id].Route) # 1
  /\ f.result # << >> => Len(f.result[1].path) >= 2

\* RouteLinks has returned and has written a route of exactly two points
C4_Witness ==
  /\ Returned
  /\ \E id \in Written : Len(topo.Links[id].Route) = 2

\* the cells of the states of the chain a route was built from
ChainLine == [i \in 1..Len(f.chain) |-> ToVec(f.chain[i].gridPos)]

\* the number of points of line that differ from the point before them
Runs(line) == Cardinality({i \in 1..Len(line) : i = 1 \/ line[i] # line[i - 1]})

\* C5: no Route RouteLinks writes holds two consecutive equal points; the
\* path of a route is the chain of its search states with each run of states
\* on one cell collapsed into one point, the order kept.
C5_NoRepeats ==
  /\ \A id \in Written : NoRepeat(topo.Links[id].Route)
  /\ (f.status = "done" /\ f.result # << >>) =>
       /\ NoRepeat(f.result[1].path)
       /\ IsSubseq(f.result[1].path, 1, ChainLine, 1)
       /\ Len(f.result[1].path) = Runs(ChainLine)

\* a search has returned a route with fewer points than its chain has
\* states: a turn on a cell was collapsed
C5_Witness ==
  /\ f.status = "done"
  /\ f.result # << >>
  /\ Len(f.result[1].path) < Len(f.chain)
  /\ Len(f.result[1].path) >= 3

\* C6: a link whose Route was non-empty when RouteLinks was called keeps that
\* Route through the call and after it; a call on a topology whose links all
\* have routes changes no Route.
C6_RoutedUntouched ==
  \A id \in DOMAIN topo.Links :
    Len(atCall.topo.Links[id].Route) > 0 => topo.Links[id].Route = atCall.topo.Links[id].Route

\* the second call of RouteLinks has returned, on a topology whose links all
\* had routes, one of them from the input and one written by the first call
C6_Witness ==
  /\ Returned
  /\ calls = 2
  /\ \A id \in DOMAIN topo.Links : Len(atCall.topo.Links[id].Route) > 0
  /\ \E id \in DOMAIN topo.Links : Len(input.topo.Links[id].Route) > 0
  /\ Written # {}



\* the execution that ranges over the maps in one fixed order
FixedOrder(S) == CHOOSE o \in Orders(S) : TRUE

Reference ==
  Execution(input, FixedOrder(DOMAIN input.topo.Nodes), FixedOrder(DOMAIN input.topo.Links),
            FixedOrder(DOMAIN input.topo.Links))

\* the topology after the first call is the one some order of ranging over
\* the maps gives
SomeExecution ==
  (Returned /\ calls = 1) =>
    \E no \in Orders(DOMAIN input.topo.Nodes), lo \in Orders(DOMAIN input.topo.Links) :
      topo = Execution(input, no, FixedOrder(DOMAIN input.topo.Links), lo)

\* C7: on the same topology and configuration, NewLinkRouter and RouteLinks
\* give every link the same Route whatever order the Nodes and Links maps are
\* ranged over in: the Route of the execution that ranges over them in one
\* fixed order.
C7_SameRoutes ==
  (Returned /\ calls = 1) =>
    \A id \in DOMAIN topo.Links : topo.Links[id].Route = Reference.Links[id].Route

\* a round of the fix-point pass has ended
RoundOver == pc = "pass3" /\ f.status = "idle" /\ idx > Len(newRoutes)

\* C8: RouteLinks terminates: every call returns; the fix-point pass is never
\* in a round beyond routeIterLimit, begins a further round only after a
\* round that replaced a route, and returns at the end of the first round
\* that replaced none.
C8_Terminates ==
  /\ [](pc = "pass3" => iter < routeIterLimit)
  /\ [][(pc = "pass3" /\ iter' # iter) => (RoundOver /\ updated /\ iter' = iter + 1)]_vars
  /\ [][(RoundOver /\ ~updated) => pc' = "ready"]_vars
  /\ (pc = "pass1") ~> (pc = "ready")

\* RouteLinks has returned after two rounds or more of the fix-point pass
\* over parallel links between two multi-cell nodes
C8_Witness ==
  /\ Returned
  /\ iter >= 1
  /\ \E a, b \in DOMAIN topo.Links :
       /\ a # b
       /\ topo.Links[a].From = topo.Links[b].From
       /\ topo.Links[a].To = topo.Links[b].To
       /\ IsMultiCell(topo.Nodes[topo.Links[a].From])
       /\ IsMultiCell(topo.Nodes[topo.Links[a].To])
       /\ {a, b} \subseteq Written

\* the loop of run is at its exit: the open set is empty or iterNum has
\* reached searchLimit
SearchOver == f.status = "running" /\ (Len(f.openSet) = 0 \/ f.iterNum >= searchLimit)

\* C9: a search never counts more than searchLimit iterations; a search whose
\* open set is empty or whose count has reached searchLimit ends without a
\* route and without a panic, the topology as it was; and an empty Route
\* becomes non-empty only by a search that returned a route for that link.
C9_SearchCapped ==
  /\ [](f.iterNum <= searchLimit)
  /\ [][SearchOver => (f'.status = "done" /\ f'.result = << >> /\ pc' = pc /\ topo' = topo)]_vars
  /\ [][(f.status = "done" /\ f.result = << >>) => (pc' # "panic" /\ topo' = topo)]_vars
  /\ [][\A id \in DOMAIN topo.Links :
          (topo.Links[id].Route = << >> /\ topo'.Links[id].Route # << >>)
            => (f.status = "done" /\ f.result # << >> /\ f.result[1].id = id)]_vars
  /\ [](Returned => \A id \in capped : topo.Links[id].Route = << >>)

\* a search has given up at searchLimit iterations, the open set not empty,
\* and has returned no route; the Route of its link is empty
C9_Witness ==
  /\ f.status = "done"
  /\ f.iterNum = searchLimit
  /\ Len(f.openSet) > 0
  /\ f.result = << >>
  /\ f.linkId \in capped
  /\ topo.Links[f.linkId].Route = << >>

\* the From or the To node of link id is missing or has no position
Skipped(t, id) == ~Placed(t, t.Links[id].From) \/ ~Placed(t, t.Links[id].To)

\* C10: no run panics; a link whose From or To node is absent or has no
\* position, its Route empty in the input, has an empty Route in every state;
\* and when RouteLinks has returned on a topology with such a link, every
\* other link that is routable has a non-empty Route.
C10_MissingSkipped ==
  /\ pc # "panic"
  /\ \A id \in DOMAIN topo.Links :
       (Skipped(topo, id) /\ input.topo.Links[id].Route = << >>)
         => topo.Links[id].Route = << >>
  /\ (Returned /\ \E bad \in DOMAIN topo.Links : Skipped(topo, bad))
       => \A id \in DOMAIN topo.Links :
            (~Skipped(topo, id) /\ Routable(atCall.router, atCall.topo, id))
              => Len(topo.Links[id].Route) > 0

\* RouteLinks has returned on a link with a missing end, its Route empty,
\* and on another link, which it has routed
C10_Witness ==
  /\ Returned
  /\ \E bad, good \in DOMAIN topo.Links :
       /\ Skipped(topo, bad)
       /\ topo.Links[bad].Route = << >>
       /\ ~Skipped(topo, good)
       /\ good \in Written

\* cell c lies outside the extents of r
Outside(r, c) ==
  c.X < r.extentMin.X \/ c.X > r.extentMax.X \/ c.Y < r.extentMin.Y \/ c.Y > r.extentMax.Y

\* the From node, the To node or a via of link id lies outside the extents
TouchesOutside(r, t, id) ==
  LET link == t.Links[id]
  IN \/ Placed(t, link.From) /\ Outside(r, PosOf(t.Nodes[link.From].Pos))
     \/ Placed(t, link.To) /\ Outside(r, PosOf(t.Nodes[link.To].Pos))
     \/ \E i \in 1..Len(link.Via) : Outside(r, PosOf(link.Via[i]))

\* a router with the extents the input sets with SetExtents
AsSet ==
  SetExtents(NoRouter, input.extents[1], input.extents[2], input.extents[3], input.extents[4])

\* C11: when RouteLinks has returned after SetExtents, every link that came
\* without a Route and whose From node, To node or one of whose vias lies
\* outside the extents has an empty Route.
C11_OutsideUnrouted ==
  (Returned /\ extSet) =>
    \A id \in DOMAIN topo.Links :
      (input.topo.Links[id].Route = << >> /\ TouchesOutside(AsSet, topo, id))
        => topo.Links[id].Route = << >>

\* the cells of a placed node: its position and, for a multi-cell node, its
\* rectangle
NodeCells(node) ==
  {PosOf(node.Pos)} \cup (IF IsMultiCell(node) THEN FootprintCells(node) ELSE {})

\* the links RouteLinks has routed whose To node is multi-cell
ToMulti == {id \in Written : IsMultiCell(topo.Nodes[topo.Links[id].To])}

\* C12 as stated: every routed link whose To node is multi-cell has the last
\* point of its Route on the position of the To node.
C12_EndsAtAnchor ==
  \A id \in ToMulti : Last(topo.Links[id].Route) = NodePos(topo, topo.Links[id].To)

\* C12, amended: every routed link whose To node is multi-cell has the last
\* point of its Route on a cell of the To node, its position or another cell
\* of its rectangle.
C12_EndsOnFootprint ==
  \A id \in ToMulti :
    ToGridPos(Last(topo.Links[id].Route)) \in NodeCells(topo.Nodes[topo.Links[id].To])

\* RouteLinks has returned with a route that ends on a cell of its multi-cell
\* To node other than the node's position
C12_Witness ==
  /\ Returned
  /\ \E id \in ToMulti :
       /\ Last(topo.Links[id].Route) # NodePos(topo, topo.Links[id].To)
       /\ Len(topo.Links[id].Route) >= 2

\* points p and q differ in exactly one coordinate
AxisAligned(p, q) == (p.X = q.X) # (p.Y = q.Y)

\* every two consecutive points of path differ in exactly one coordinate
NoDiagonal(path) == \A i \in 1..(Len(path) - 1) : AxisAligned(path[i], path[i + 1])

\* C13: with Orthogonal set, every route a search returns and every Route
\* RouteLinks writes has each two consecutive points differ in exactly one
\* coordinate.
C13_OrthogonalRoutes ==
  router.Orthogonal =>
    /\ f.result # << >> => NoDiagonal(f.result[1].path)
    /\ \A id \in Written : NoDiagonal(topo.Links[id].Route)

\* RouteLinks has returned with Orthogonal set and has written a route with
\* a bend between two nodes that share neither row nor column
C13_Witness ==
  /\ Returned
  /\ router.Orthogonal
  /\ \E id \in Written :
       LET route == topo.Links[id].Route
       IN /\ Len(route) >= 3
          /\ route[1].X # Last(route).X
          /\ route[1].Y # Last(route).Y

\* cell c is one a route may not pass: it holds a fixed node label, or,
\* with AvoidNodes set, a node
Blocked(r, c) == c \in r.nodeLabels \/ (r.AvoidNodes /\ c \in DOMAIN r.nodes)

\* every point of path after the first lies on a cell of the To node of link
\* or on a cell that is not blocked
KeepsClear(r, t, link, path) ==
  \A i \in 2..Len(path) :
    LET c == ToGridPos(path[i])
    IN IsGoalCell(r, t, link, c) \/ ~Blocked(r, c)

\* C14: no point of a route a search returns or RouteLinks writes, other
\* than the first point and points on cells of the link's To node, lies on a
\* cell that holds a fixed node label or, with AvoidNodes set, a node.
C14_RoutesKeepClear ==
  /\ f.result # << >> =>
       KeepsClear(router, topo, topo.Links[f.result[1].id], f.result[1].path)
  /\ \A id \in Written : KeepsClear(router, topo, topo.Links[id], topo.Links[id].Route)

\* RouteLinks has returned with a route of three points or more whose ends
\* both touch a blocked cell that is not a cell of the link's ends: the route
\* has gone around it
C14_Witness ==
  /\ Returned
  /\ \E id \in Written :
       LET link == topo.Links[id]
           route == link.Route
       IN /\ Len(route) >= 3
          /\ \E c \in router.nodeLabels \cup DOMAIN router.nodes :
               /\ Blocked(router, c)
               /\ Lookup(router.nodes, c, "") \notin {link.From, link.To}
               /\ ChebyshevDistance(c, ToGridPos(route[1])) = 1
               /\ ChebyshevDistance(c, ToGridPos(Last(route))) = 1

\* the last two points of path differ in exactly one coordinate
ArrivesCardinal(path) ==
  Len(path) >= 2 /\ AxisAligned(path[Len(path) - 1], path[Len(path)])

\* C15: with AttachMultiCellsCardinal set, every route a search returns and
\* every Route RouteLinks writes for a link whose To node is multi-cell has
\* its last two points differ in exactly one coordinate.
C15_CardinalAttach ==
  router.AttachMultiCellsCardinal =>
    /\ (f.result # << >> /\ f.goalIsMulti) => ArrivesCardinal(f.result[1].path)
    /\ \A id \in ToMulti : ArrivesCardinal(topo.Links[id].Route)

\* RouteLinks has returned with AttachMultiCellsCardinal set and a route to a
\* multi-cell node that has a diagonal step before its last step
C15_Witness ==
  /\ Returned
  /\ router.AttachMultiCellsCardinal
  /\ \E id \in ToMulti :
       LET route == topo.Links[id].Route
       IN /\ ArrivesCardinal(route)
          /\ ~NoDiagonal(route)

\* the cell the label of node id lies on in topology t, for a node with a
\* position and a label direction
LabelCellOf(t, id) ==
  moveGridPos(directionFromString(t.Nodes[id].LabelAt), PosOf(t.Nodes[id].Pos))

\* the nodes of topology t that have a position
Positioned(t) == {id \in DOMAIN t.Nodes : t.Nodes[id].Pos # << >>}

\* the cells of topology t a label of node id must keep off: the cells of the
\* other nodes, the cells of the labels set so far, the cells of the routes
Occupied(t, id) ==
  UNION {NodeCells(t.Nodes[nid]) : nid \in Positioned(t) \ {id}}
  \cup {LabelCellOf(t, nid) :
          nid \in {n \in Positioned(t) : directionFromString(t.Nodes[n].LabelAt) # directionNone}}
  \cup UNION {{ToGridPos(t.Links[l].Route[i]) : i \in 1..Len(t.Links[l].Route)} :
                l \in DOMAIN t.Links}

\* the nodes the step sets the label direction of
Labelled == {id \in DOMAIN topo.Nodes : topo.Nodes[id].LabelAt = "" /\ topo'.Nodes[id].LabelAt # ""}

\* C16: PlaceLabels never sets a node's label direction to one whose cell is,
\* when it is chosen, a cell of another node (any cell of the rectangle of a
\* multi-cell node), the cell of a fixed or already placed label, or a cell of
\* a routed link.
C16_LabelOnFreeCell ==
  [][pc = "labels" => \A id \in Labelled : LabelCellOf(topo', id) \notin Occupied(topo, id)]_vars

\* the 8 cells around a cell
Around(pos) == {moveGridPos(d, pos) : d \in directionN..directionNW}

\* the node the step of the placement loop visits
Visited(id) == pc = "labels" /\ id \in labelPending /\ labelPending' = labelPending \ {id}

\* the nodes with a position and no label direction whose 8 cells around are
\* all occupied: by other nodes, by labels, by routes
Enclosed ==
  {id \in Positioned(topo) :
     topo.Nodes[id].LabelAt = "" /\ Around(PosOf(topo.Nodes[id].Pos)) \subseteq Occupied(topo, id)}

\* C17: when PlaceLabels visits a positioned node without a label direction
\* whose 8 cells around are all occupied, the node's LabelAt stays empty, and
\* the placement goes on.
C17_EnclosedStaysEmpty ==
  [][\A id \in Enclosed : Visited(id) => topo'.Nodes[id].LabelAt = "" /\ pc' = "labels"]_vars

\* the cells of a path
PathCells(path) == {ToGridPos(path[i]) : i \in 1..Len(path)}

\* the cells where the grid of router r holds link id
CellsOfLink(r, id) == {c \in DOMAIN r.linkMap : id \in r.linkMap[c]}

\* router r holds the link of route rt on every cell of its path
Registered(r, rt) == PathCells(rt.path) \subseteq CellsOfLink(r, rt.id)

\* C18 as stated: while a search of the first pass runs, every route found
\* earlier in the pass is already in the grid of the router.
C18_RegisteredBeforeNext ==
  (pc = "pass1" /\ f.status = "running") =>
    \A i \in 1..Len(routes) : Registered(router, routes[i])

\* C18, amended: the first pass leaves the router as it was when RouteLinks
\* was called, so that every search of the pass sees none of the routes found
\* earlier in the pass; the routes found are all added to the grid when the
\* pass is over, before the second pass starts.
C18_RegisteredAfterPass ==
  [][/\ (pc = "pass1" /\ pc' = "pass1") => router' = router
     /\ (pc = "pass1" /\ pc' = "pass2") =>
          \A i \in 1..Len(routes) : Registered(router', routes[i])]_vars

\* a search of the first pass runs while a route found earlier in the pass
\* has a cell that is not in the grid
C18_Witness ==
  /\ pc = "pass1"
  /\ f.status = "running"
  /\ \E i \in 1..Len(routes) : PathCells(routes[i].path) \ CellsOfLink(router, routes[i].id) # {}
  /\ router = atCall.router

\* the step replaces the route, the recorded weight or the cells of the link
\* of the i-th recorded route
Replaced(i) ==
  LET id == newRoutes[i].id
  IN \/ newRoutes'[i] # newRoutes[i]
     \/ topo'.Links[id].Route # topo.Links[id].Route
     \/ CellsOfLink(router', id) # CellsOfLink(router, id)

\* the step replaces the i-th recorded route by the route the search found,
\* which weighs less
ReplacedByBetter(i) ==
  /\ i = idx
  /\ f.status = "done"
  /\ f.result # << >>
  /\ f.result[1].id = newRoutes[i].id
  /\ F32Less(f.result[1].weight, newRoutes[i].weight)
  /\ newRoutes'[i] = f.result[1]
  /\ topo'.Links[newRoutes[i].id].Route = f.result[1].path
  /\ router' = moveRoute(router, newRoutes[i].id, newRoutes[i].path, f.result[1].path)

\* C19: in the fix-point pass the Route of a link, its recorded weight and its
\* cells in the grid are replaced only by a route that was found with a
\* strictly lower weight, and all three are replaced then; the recorded weight
\* of a link never goes up.
C19_ReplacedOnlyByBetter ==
  [][(pc = "pass3" /\ pc' = "pass3") =>
       /\ Len(newRoutes') = Len(newRoutes)
       /\ \A i \in 1..Len(newRoutes) :
            /\ ~F32Less(newRoutes[i].weight, newRoutes'[i].weight)
            /\ Replaced(i) => ReplacedByBetter(i)
            /\ (i = idx /\ f.status = "done" /\ f.result # << >>
                  /\ F32Less(f.result[1].weight, newRoutes[i].weight)) => ReplacedByBetter(i)]_vars

\* a round of the fix-point pass has replaced a route, and a later search of
\* the round has come back with a route that does not weigh less
C19_Witness ==
  /\ pc = "pass3"
  /\ updated
  /\ f.status = "done"
  /\ f.result # << >>
  /\ ~F32Less(f.result[1].weight, newRoutes[idx].weight)

\* the first pass has added its routes to the grid, in this call of
\* RouteLinks or in an earlier one
RoutesRegistered == pc \in {"pass2", "pass3"} \/ Returned

\* the links of the topology that have a Route
Routed == {id \in DOMAIN topo.Links : Len(topo.Links[id].Route) > 0}

\* C20: once the first pass has added its routes to the grid, and after every
\* moveRoute of the later passes, the cells where the grid holds a link that
\* has a Route are exactly the cells of that Route.
C20_CellsAreRoute ==
  RoutesRegistered =>
    \A id \in Routed : CellsOfLink(router, id) = PathCells(topo.Links[id].Route)

\* ------------------------------------------------------------ C21

\* a step of a search: routeLink is called, or the loop of run does one
\* iteration (the last one builds the route and returns)
SearchMoves == f.status = "running" \/ (f.status = "idle" /\ f'.status # "idle")

\* the step changes the link occupancy of the grid
GridMoves == router'.linkMap # router.linkMap

\* the step is RouteLinks calling addRoute for the routes of the first pass,
\* or moveRoute (removeRoute, addRoute) for the route a search has returned
RouteLinksWrites ==
  \/ /\ pc = "pass1" /\ f.status = "idle" /\ pending = {}
     /\ router' = AddRoutes(router, routes, 1)
  \/ /\ pc = "pass2" /\ f.status = "done" /\ f.result # << >>
     /\ router' = moveRoute(router, f.result[1].id, routes[idx].path, f.result[1].path)
  \/ /\ pc = "pass3" /\ f.status = "done" /\ f.result # << >>
     /\ router' = moveRoute(router, f.result[1].id, newRoutes[idx].path, f.result[1].path)

\* C21: a search only reads the shared grid state: every step of a search
\* leaves the router (node, label and link occupancy, the extents, the
\* options) and the topology (every link's Route) as they were, and once the
\* router is made the link occupancy changes only on the steps of RouteLinks
\* that call addRoute or moveRoute.
C21_SearchReadsOnly ==
  [][/\ SearchMoves => (router' = router /\ topo' = topo)
     /\ (GridMoves /\ pc # "new") => (~SearchMoves /\ RouteLinksWrites)]_vars

\* a search of the second pass has returned a route after at least one
\* iteration over a grid that lists another link
C21_Witness ==
  /\ pc = "pass2"
  /\ f.status = "done"
  /\ f.result # << >>
  /\ f.iterNum >= 1
  /\ \E c \in DOMAIN router.linkMap : router.linkMap[c] \ {f.linkId} # {}

\* ------------------------------------------------------------ C22

\* the start states run pushes for the search under way
StartStates ==
  LET start == GetNode(topo, f.startNode)
      ps == IF start = << >> \/ start[1].Pos = << >> THEN << >> ELSE StartPositions(start[1])
  IN {gridNode(ps[i], 0, 0, Len(f.vias)) : i \in 1..Len(ps)}

\* the state k parents up from n, or the first state without a parent
RECURSIVE Ancestor(_, _)
Ancestor(n, k) ==
  IF k = 0 \/ n \notin DOMAIN f.cameFrom THEN n ELSE Ancestor(f.cameFrom[n], k - 1)

\* every state that has a parent is len(cameFrom) parents or fewer away from
\* a start state: cameFrom has no cycle
Acyclic ==
  \A n \in DOMAIN f.cameFrom :
    Ancestor(n, Cardinality(DOMAIN f.cameFrom)) \in StartStates \ DOMAIN f.cameFrom

\* the weight recorded for a state is above the weight recorded for its parent
ParentsLighter ==
  \A n \in DOMAIN f.cameFrom :
    /\ f.cameFrom[n] \in DOMAIN f.weights
    /\ F32Less(f.weights[f.cameFrom[n]], f.weights[n])

\* C22: in every state of a search cameFrom is acyclic and no start state
\* has a parent, so buildRoute reaches a start state within len(cameFrom)+1
\* steps for every goal state popped, and neither panic of buildRoute is
\* reached.
C22_NoBuildRoutePanic ==
  /\ ~f.panicked
  /\ pc # "panic"
  /\ f.status \in {"running", "done"} /\ f.linkId \in DOMAIN topo.Links =>
       /\ StartStates \cap DOMAIN f.cameFrom = {}
       /\ Acyclic
       /\ ParentsLighter
  /\ f.status = "done" /\ f.result # << >> =>
       /\ f.chain[1] \in StartStates
       /\ Len(f.chain) <= Cardinality(DOMAIN f.cameFrom) + 1
       /\ \A i \in 2..Len(f.chain) : f.cameFrom[f.chain[i]] = f.chain[i - 1]

\* buildRoute has walked back a chain of at least four states, in a search
\* whose parent map also holds states off that chain
C22_Witness ==
  /\ f.status = "done"
  /\ f.result # << >>
  /\ Len(f.chain) >= 4
  /\ Cardinality(DOMAIN f.cameFrom) > Len(f.chain)

\* ------------------------------------------------------------ C23

\* the state the next iteration of run pops
Current == PopValue(f.openSet)

\* the next iteration of run expands Current
Expanding ==
  /\ f.status = "running"
  /\ Len(f.openSet) > 0
  /\ f.iterNum < searchLimit
  /\ ~IsGoal(f, router, Current)

\* the neighbours Current is expanded to
Expanded ==
  LET ns == neighbours(f, router, Current) IN {ns[i] : i \in 1..Len(ns)}

IsTurn(a, b) == a.gridPos = b.gridPos

\* the state n was reached by a turn
TurnedInto(n) == n \in DOMAIN f.cameFrom /\ IsTurn(f.cameFrom[n], n)

\* the base cost the claim gives the edge from Current to n
ClaimedBase(n) ==
  IF ~IsTurn(Current, n) THEN 1 ELSE IF TurnedInto(Current) THEN 4 ELSE 2

\* the iteration records a weight for n
Relaxed(n) ==
  /\ n \in DOMAIN f'.weights
  /\ n \notin DOMAIN f.weights \/ f'.weights[n] # f.weights[n]

\* the directions of a and b are at 90 degrees
RightAngle(a, b) ==
  /\ a.dirX * b.dirX + a.dirY * b.dirY = 0
  /\ (a.dirX # 0 \/ a.dirY # 0) /\ (b.dirX # 0 \/ b.dirY # 0)

\* C23: the base cost of an edge is 1 for a step and 2 for a turn in the
\* cell, 4 when the state turned from was itself reached by a turn, and the
\* weight an iteration records for a neighbour is the weight of the popped
\* state plus that base cost plus the penalties; two 45-degree turns in one
\* cell (a 90-degree change) cost 2 + 4 = 6, and two turns with a step
\* between them cost 2 + 2 = 4.
C23_BaseCosts ==
  [][Expanding =>
       \A n \in Expanded :
         /\ BaseCost(f, Current, n) = ClaimedBase(n)
         /\ Relaxed(n) =>
              f'.weights[n] =
                F32Add(f.weights[Current],
                       F32Add(F32(ClaimedBase(n), 0), LinkPenalty(f, router, Current, n)))
         /\ (IsTurn(Current, n) /\ TurnedInto(Current)
               /\ ~TurnedInto(f.cameFrom[Current])
               /\ RightAngle(f.cameFrom[Current], n)) =>
              BaseCost(f, f.cameFrom[Current], Current) + BaseCost(f, Current, n) = 6
         /\ (IsTurn(Current, n) /\ Current \in DOMAIN f.cameFrom /\ ~TurnedInto(Current)
               /\ TurnedInto(f.cameFrom[Current])
               /\ ~TurnedInto(f.cameFrom[f.cameFrom[Current]])) =>
              BaseCost(f, f.cameFrom[f.cameFrom[Current]], f.cameFrom[Current])
                + BaseCost(f, Current, n) = 4]_vars

\* run is about to expand a state reached by a turn, and one of the
\* neighbours is a second turn in the same cell, 90 degrees off the
\* direction before the first
C23_Witness ==
  /\ Expanding
  /\ TurnedInto(Current)
  /\ ~TurnedInto(f.cameFrom[Current])
  /\ \E n \in Expanded :
       /\ IsTurn(Current, n)
       /\ RightAngle(f.cameFrom[Current], n)
       /\ n \notin DOMAIN f.weights

\* ------------------------------------------------------------ C24

\* 1 + 1/2 + ... + 1/2^(k-1), in units of 1 / PenaltyOne
Geometric(k) ==
  IF k = 0 THEN 0 ELSE (PenaltyOne \div Pow2(k - 1)) * (Pow2(k) - 1)

\* the float32 weight of a step whose penalties add up to `penalties` units
\* of 1 / PenaltyOne: 1 + penalties * linkPenaltyWeight
StepWeight(penalties) == F32Add(F32(1, 0), Weighted(penalties))

\* the number of links listed in the cell c other than the link being routed
OthersIn(c) == Cardinality({l \in Lookup(router.linkMap, c, {}) : l # f.linkId})

\* c is the goal position or a cell of the goal node
GoalCell(c) == c = f.goal.gridPos \/ Lookup(router.nodes, c, "") = f.goalNode

\* the edge from Current to n gets no crossing and no spread penalty
OccupancyOnly(n) ==
  /\ CrossingLinks(f, router, Current) = {}
  /\ SumSpread(f, router, SpreadCells(n), 1, 0) = 0

\* C24: the weight an iteration of run records for a step into a cell is the
\* weight of the popped state plus 1 and nothing else when the cell is the
\* goal position or a cell of the goal node; for any other cell it contains
\* linkPenaltyWeight * (1 + 1/2 + ... + 1/2^(k-1)) for the k links other than
\* the link being routed that the cell lists, and is exactly 1 plus that sum
\* when the edge has no crossing and no spread penalty.
C24_OccupancyPenalty ==
  [][Expanding =>
       \A n \in Expanded :
         (~IsTurn(Current, n) /\ Relaxed(n)) =>
           LET occupancy ==
                 F32Add(f.weights[Current], StepWeight(Geometric(OthersIn(n.gridPos))))
           IN IF GoalCell(n.gridPos)
              THEN f'.weights[n] = F32Add(f.weights[Current], F32(1, 0))
              ELSE /\ ~F32Less(f'.weights[n], occupancy)
                   /\ OccupancyOnly(n) => f'.weights[n] = occupancy]_vars

\* run is about to step into a cell, not a goal cell, that lists the link
\* being routed and two other links, on an edge without any other penalty
C24_Witness ==
  /\ Expanding
  /\ \E n \in Expanded :
       /\ ~IsTurn(Current, n)
       /\ n \notin DOMAIN f.weights
       /\ ~GoalCell(n.gridPos)
       /\ OccupancyOnly(n)
       /\ OthersIn(n.gridPos) = 2
       /\ f.linkId \in Lookup(router.linkMap, n.gridPos, {})

\* ------------------------------------------------------------ C25

\* the step from the cell a to the cell b is diagonal
Diagonal(a, b) == a.X # b.X /\ a.Y # b.Y

\* the links other than the one being routed that are listed in both side
\* cells of the diagonal step from a to b
Crossed(a, b) ==
  {l \in Lookup(router.linkMap, GridPos(b.X, a.Y), {})
         \cap Lookup(router.linkMap, GridPos(a.X, b.Y), {}) : l # f.linkId}

\* the weight of Current plus the step, the occupancy penalty of the cell
\* and the spread penalty, after a crossing penalty that leaves linkPenalty
\* at `crossing`
WithCrossing(n, crossing) ==
  F32Add(f.weights[Current],
         StepWeight(SumSpread(f, router, SpreadCells(n), 1, crossing)))

\* C25: every diagonal step of a search into a cell that is not a goal cell,
\* whatever state it is taken from, adds a penalty when a link other than
\* the one being routed is listed in both side cells of the step.
C25_DiagonalCrossingPenalised ==
  [][Expanding =>
       \A n \in Expanded :
         (Diagonal(Current.gridPos, n.gridPos) /\ Relaxed(n) /\ ~GoalCell(n.gridPos)
            /\ Crossed(Current.gridPos, n.gridPos) # {}) =>
           F32Less(WithCrossing(n, Geometric(OthersIn(n.gridPos))), f'.weights[n])]_vars

\* C25, for the states that have a direction: a diagonal step out of a state
\* that is not a start state adds 1/n for each crossed link, n going on from
\* where the occupancy penalty of the cell left it
C25_CrossingFromMovingState ==
  [][Expanding =>
       \A n \in Expanded :
         (Diagonal(Current.gridPos, n.gridPos) /\ Relaxed(n) /\ ~GoalCell(n.gridPos)) =>
           f'.weights[n] =
             WithCrossing(n, IF Current.dirX = 0 /\ Current.dirY = 0
                             THEN Geometric(OthersIn(n.gridPos))
                             ELSE Penalty(Geometric(OthersIn(n.gridPos)),
                                          Pow2(OthersIn(n.gridPos)),
                                          Cardinality(Crossed(Current.gridPos, n.gridPos))))]_vars

\* ------------------------------------------------------------ C26

\* the two cells next to the cell of n that lie 45 degrees to the left and to
\* the right of the direction n is entered in
SideCells(n) ==
  {Shift(n.gridPos, e) :
     e \in {d \in AllSteps : Abs(d[1] - n.dirX) + Abs(d[2] - n.dirY) = 1}}

\* 1/16 + 1/32 + ... over k links, in units of 1 / PenaltyOne
Sixteenths(k) ==
  IF k = 0 THEN 0 ELSE (PenaltyOne \div (16 * Pow2(k - 1))) * (Pow2(k) - 1)

RECURSIVE SumOver(_)
SumOver(cells) ==
  IF cells = {} THEN 0
  ELSE LET c == CHOOSE x \in cells : TRUE
       IN Sixteenths(OthersIn(c)) + SumOver(cells \ {c})

\* the occupancy penalty of the cell of n and the crossing penalty of the
\* step from Current to n, in units of 1 / PenaltyOne
CrossingNow(n) ==
  IF Current.dirX = 0 \/ Current.dirY = 0 THEN Geometric(OthersIn(n.gridPos))
  ELSE Penalty(Geometric(OthersIn(n.gridPos)), Pow2(OthersIn(n.gridPos)),
               Cardinality(Crossed(Current.gridPos, n.gridPos)))

\* the weight of Current plus the step, the occupancy penalty of the cell,
\* the crossing penalty and `spread` units of 1 / PenaltyOne
WithSpread(n, spread) == F32Add(f.weights[Current], StepWeight(CrossingNow(n) + spread))

\* the two cells next to the cell of n at a right angle to its direction
BesideCells(n) ==
  {GridPos(n.gridPos.X - n.dirY, n.gridPos.Y + n.dirX),
   GridPos(n.gridPos.X + n.dirY, n.gridPos.Y - n.dirX)}

\* C26: with SpreadLinks set, a step into a cell c that is not a goal cell
\* adds, for each of the two cells next to c to the left and to the right of
\* the direction of travel, linkPenaltyWeight times 1/16 + 1/32 + ... over
\* the links other than the one being routed that the cell lists; with
\* SpreadLinks unset it adds nothing for them.
C26_SpreadBeside ==
  [][Expanding =>
       \A n \in Expanded :
         (~IsTurn(Current, n) /\ Relaxed(n) /\ ~GoalCell(n.gridPos)) =>
           f'.weights[n] =
             WithSpread(n, IF router.SpreadLinks THEN SumOver(BesideCells(n)) ELSE 0)]_vars

\* what the code does instead: the two cells it adds the series for are the
\* neighbours of c one step on, 45 degrees to the left and to the right of
\* the direction of travel
C26_SpreadAhead ==
  [][Expanding =>
       \A n \in Expanded :
         (~IsTurn(Current, n) /\ Relaxed(n) /\ ~GoalCell(n.gridPos)) =>
           f'.weights[n] =
             WithSpread(n, IF router.SpreadLinks THEN SumOver(SideCells(n)) ELSE 0)]_vars

\* ------------------------------------------------------------ C27

\* the nodes PlaceLabels has labelled so far
LabelledByPlaceLabels ==
  {id \in Positioned(topo) : input.topo.Nodes[id].LabelAt = "" /\ topo.Nodes[id].LabelAt # ""}

\* the cells of the labels the nodes came with
FixedLabelCells ==
  {LabelCellOf(input.topo, id) :
     id \in {n \in Positioned(input.topo) :
               directionFromString(input.topo.Nodes[n].LabelAt) # directionNone}}

\* the cells of the routes of the links
RouteCells ==
  UNION {PathCells(topo.Links[l].Route) : l \in DOMAIN topo.Links}

\* C27: during and after PlaceLabels the label cells of the nodes it has
\* labelled are pairwise distinct and are no position cell of a node, no cell
\* of a label a node came with and no cell of a route.
C27_PlacedLabelsApart ==
  pc \in {"labels", "placed"} =>
    \A a \in LabelledByPlaceLabels :
      /\ \A b \in LabelledByPlaceLabels \ {a} : LabelCellOf(topo, a) # LabelCellOf(topo, b)
      /\ \A n \in Positioned(topo) : LabelCellOf(topo, a) # PosOf(topo.Nodes[n].Pos)
      /\ LabelCellOf(topo, a) \notin FixedLabelCells
      /\ LabelCellOf(topo, a) \notin RouteCells

\* PlaceLabels has returned after labelling two nodes or more, in a topology
\* with a label that was fixed and with routes
C27_Witness ==
  /\ pc = "placed"
  /\ Cardinality(LabelledByPlaceLabels) >= 2
  /\ FixedLabelCells # {}
  /\ RouteCells # {}

\* ------------------------------------------------------------ C28

\* the sum of the edge costs along the chain of states buildRoute walked up
\* to its i-th state, added up in float32 from the start state on, each edge
\* weighed as weight weighs it once the search is over
RECURSIVE ChainCost(_)
ChainCost(i) ==
  IF i <= 1 THEN F32(0, 0)
  ELSE F32Add(ChainCost(i - 1), weight(f, router, f.chain[i - 1], f.chain[i]))

\* a search has returned a route
RouteReturned == f.status = "done" /\ f.result # << >>

\* C28: the weight recorded for the route a search returns is the sum of the
\* edge costs along the chain of states the route was built from.
C28_WeightIsChainCost ==
  RouteReturned => f.result[1].weight = ChainCost(Len(f.chain))

\* a search has returned a route built from a chain with a state whose parent
\* was replaced by a cheaper one during the search
C28_Witness ==
  /\ RouteReturned
  /\ \E i \in 1..Len(f.chain) : f.chain[i] \in f.replaced

\* ------------------------------------------------------------ C29

\* every two consecutive points of the path are neighbouring cells
Contiguous(path) ==
  \A i \in 1..(Len(path) - 1) :
    ChebyshevDistance(ToGridPos(path[i]), ToGridPos(path[i + 1])) = 1

\* C29: every two consecutive points of a route produced by a search are
\* neighbouring cells (Chebyshev distance exactly 1) and the points of the
\* route are all the cells of the states the search went through, so once the
\* route is registered every cell of the route lists the link.
C29_RoutesContiguous ==
  /\ RouteReturned =>
       /\ Contiguous(f.result[1].path)
       /\ PathCells(f.result[1].path) = {f.chain[i].gridPos : i \in 1..Len(f.chain)}
  /\ \A id \in Written :
       /\ Contiguous(topo.Links[id].Route)
       /\ RoutesRegistered => PathCells(topo.Links[id].Route) \subseteq CellsOfLink(router, id)

\* RouteLinks has returned a route of four points or more that has a
\* diagonal step and a straight step
C29_Witness ==
  /\ Returned
  /\ \E id \in Written :
       LET path == topo.Links[id].Route
       IN /\ Len(path) >= 4
          /\ \E i \in 1..(Len(path) - 1) : path[i].X # path[i + 1].X /\ path[i].Y # path[i + 1].Y
          /\ \E i \in 1..(Len(path) - 1) : path[i].X = path[i + 1].X \/ path[i].Y = path[i + 1].Y

\* ------------------------------------------------------------ C30

\* the cell c lies in the rectangle from extentMin to extentMax of router r
InExtents(r, c) ==
  /\ r.extentMin.X <= c.X /\ c.X <= r.extentMax.X
  /\ r.extentMin.Y <= c.Y /\ c.Y <= r.extentMax.Y

\* C30: every point of the route a search returns, but the first point and
\* the points on the goal position or on a cell of the goal node, lies in the
\* rectangle from extentMin to extentMax the router had during the search;
\* and extentMin is at most extentMax in both coordinates after
\* NewLinkRouter, SetExtents and every addRoute and moveRoute.
C30_RoutesInExtents ==
  /\ RouteReturned =>
       \A i \in 2..Len(f.result[1].path) :
         LET c == ToGridPos(f.result[1].path[i])
         IN GoalCell(c) \/ InExtents(router, c)
  /\ router.extentMin.X <= router.extentMax.X
  /\ router.extentMin.Y <= router.extentMax.Y

\* after SetExtents with the corners given the wrong way round, a search has
\* returned a route of three points or more
C30_Witness ==
  /\ RouteReturned
  /\ extSet
  /\ input.extents[1] > input.extents[3]
  /\ input.extents[2] > input.extents[4]
  /\ Len(f.result[1].path) >= 3

====
